---- MODULE Spec2Model ----
(***************************************************************************)
(* Model of backend/core/monte_carlo.py (run_monte_carlo_simulation).      *)
(*                                                                         *)
(* Floating point numbers are modelled in fixed point:                     *)
(*   - daily returns, means and standard deviations in units of 1/SCALE    *)
(*     (basis points), variances and covariances in units of 1/SCALE^2,    *)
(*     so that the jitter 1e-8 of line 66 is exactly one variance unit;    *)
(*   - portfolio values in units of 1/VALUE_UNIT (cents);                  *)
(*   - weights in units of 1/WEIGHT_UNIT (percent).                        *)
(* A division rounds down where the float division would round to nearest. *)
(* NaN is a value of its own that every arithmetic operation propagates.   *)
(***************************************************************************)
EXTENDS Integers, Sequences, FiniteSets, TLC

(* ----------------------------- bounds --------------------------------- *)
\* largest num_years a caller passes
MaxYears == 2
\* largest num_paths a caller passes (or sets through MC_PATH_COUNT)
MaxPaths == 3
\* number of distinct entropy values numpy.random.default_rng() can be seeded with
MaxSeed == 2
\* largest number of rows of a price table handed to the CAGR functions
MaxRows == 3

(* ------------------------- program constants -------------------------- *)
DAYS_IN_YEAR == 252
DEFAULT_MC_PATH_COUNT == 5000
DEFAULT_MC_PATH_CHUNK_SIZE == 500

(* --------------------------- fixed point ------------------------------ *)
SCALE == 10000
VALUE_UNIT == 100
WEIGHT_UNIT == 100
\* the jitter 1e-8 of line 66, in units of 1/SCALE^2
JITTER == 1

NaN == 0 - 1000000000
IsNaN(x) == x = NaN

\* Python's None for an optional argument, an unset environment variable, an
\* unassigned local: the empty tuple; a present value v is <<v>>.
None == <<>>
Some(v) == <<v>>
IsNone(o) == o = <<>>
Get(o) == o[1]

Max(a, b) == IF b > a THEN b ELSE a
Min(a, b) == IF b < a THEN b ELSE a

RECURSIVE SumSeq(_)
SumSeq(s) == IF s = <<>> THEN 0 ELSE Head(s) + SumSeq(Tail(s))

HasNaN(s) == \E i \in 1..Len(s) : IsNaN(s[i])

\* floor of the square root of a non-negative integer
RECURSIVE SqrtBetween(_, _, _)
\* the largest k in lo..hi with k * k <= n, by bisection (lo * lo <= n)
SqrtBetween(n, lo, hi) ==
    IF lo >= hi THEN lo
    ELSE IF ((lo + hi + 1) \div 2) * ((lo + hi + 1) \div 2) <= n
         THEN SqrtBetween(n, (lo + hi + 1) \div 2, hi)
         ELSE SqrtBetween(n, lo, ((lo + hi + 1) \div 2) - 1)

ISqrt(n) == SqrtBetween(n, 0, Min(n, 46340))

(* ------------------------------ inputs -------------------------------- *)
\* A daily_returns table is a sequence of rows (dates, oldest first); a row is a
\* sequence with one return per asset column, in basis points.
NRows(t) == Len(t)
NCols(t) == Len(t[1])

\* one asset, constant return 0.001 (tests: test_single_asset_deterministic_paths)
TableConstSingle == << <<10>>, <<10>>, <<10>> >>
\* one asset, returns -0.001, 0.001, 0.003: mean 0.001, variance 4e-6
TableVarSingle == << <<-10>>, <<10>>, <<30>> >>
\* two assets, both constant: the covariance matrix is zero
TableConstPair == << <<10, 5>>, <<10, 5>>, <<10, 5>> >>
\* two assets with a positive definite covariance matrix
TableVarPair == << <<0, 0>>, <<20, 10>>, <<10, 20>> >>
\* two assets, a single row of history: the sample covariance is NaN
TableOneRow == << <<10, 5>> >>

\* one asset with returns -0.9, -0.9, 1.5: mean -0.1, variance 1.92, so that a
\* draw one standard deviation below the mean is a daily return below -1
TableVolatile == << <<-9000>>, <<-9000>>, <<15000>> >>

ReturnTables ==
    {TableConstSingle, TableVarSingle, TableConstPair, TableVarPair, TableOneRow,
     TableVolatile}

WeightVectors == { <<>>, <<100>>, <<60, 40>> }

InitialValues == { 5000 * VALUE_UNIT }

\* values of the environment variables MC_PATH_COUNT and MC_PATH_CHUNK_SIZE
EnvChunkSizes == { None, Some("-3"), Some("0"), Some("2"), Some("many") }
EnvPathCounts == { None, Some("-3"), Some("0"), Some("many") }

(* ----------------------- conversions (int()) -------------------------- *)
\* int(s) of Python for the strings the environment holds here; a string that
\* is no integer literal raises ValueError, reported as None.
ParseInt(s) ==
    CASE s = "0" -> Some(0)
      [] s = "1" -> Some(1)
      [] s = "2" -> Some(2)
      [] s = "3" -> Some(3)
      [] s = "-3" -> Some(0 - 3)
      [] OTHER -> None

\* int(os.getenv(name, default)): the default is used only when the variable is unset
GetenvInt(value, default) ==
    IF IsNone(value) THEN Some(default) ELSE ParseInt(Get(value))

(* --------------------- statistics (pandas mean/cov) ------------------- *)
Column(t, j) == [i \in 1..NRows(t) |-> t[i][j]]

ColMean(t, j) == SumSeq(Column(t, j)) \div NRows(t)

\* DataFrame.mean().values
MeanReturns(t) == [j \in 1..NCols(t) |-> ColMean(t, j)]

\* sample covariance (ddof = 1); NaN with fewer than two rows
Covariance(t, a, b) ==
    IF NRows(t) < 2 THEN NaN
    ELSE SumSeq([i \in 1..NRows(t) |->
                    (t[i][a] - ColMean(t, a)) * (t[i][b] - ColMean(t, b))])
         \div (NRows(t) - 1)

\* DataFrame.cov().values
CovMatrix(t) == [a \in 1..NCols(t) |-> [b \in 1..NCols(t) |-> Covariance(t, a, b)]]

(* -------------------------- linear algebra ---------------------------- *)
Dim(m) == Len(m)
MatHasNaN(m) == \E i \in 1..Dim(m) : HasNaN(m[i])

\* np.eye(n) * 1e-8
\* faulty variant of Jitter: 1e-8 added to every entry, not only the diagonal
JitterEverywhere(n) == [i \in 1..n |-> [j \in 1..n |-> JITTER]]

Jitter(n) == [i \in 1..n |-> [j \in 1..n |-> IF i = j THEN JITTER ELSE 0]]

\* numpy broadcasting of cov_matrix + jitter: equal shapes add elementwise, a
\* 1x1 operand is stretched to the other's shape, anything else is a ValueError
CanBroadcast(m, j) == Dim(m) = Dim(j) \/ Dim(m) = 1 \/ Dim(j) = 1

Entry(m, i, j) == IF Dim(m) = 1 THEN m[1][1] ELSE m[i][j]

AddNaN(x, y) == IF IsNaN(x) \/ IsNaN(y) THEN NaN ELSE x + y

BroadcastAdd(m, j) ==
    LET n == Max(Dim(m), Dim(j))
    IN  [a \in 1..n |-> [b \in 1..n |-> AddNaN(Entry(m, a, b), Entry(j, a, b))]]

\* entry (i, j), j <= i, of the lower-triangular Cholesky factor of m
RECURSIVE CholL(_, _, _)
CholL(m, i, j) ==
    LET s == SumSeq([k \in 1..(j - 1) |-> CholL(m, i, k) * CholL(m, j, k)])
    IN  IF i = j THEN ISqrt(m[i][i] - s)
        ELSE (m[i][j] - s) \div CholL(m, j, j)

\* the i-th pivot of the factorisation: LAPACK fails when it is not positive
Pivot(m, i) == m[i][i] - SumSeq([k \in 1..(i - 1) |-> CholL(m, i, k) * CholL(m, i, k)])

RECURSIVE PivotsPositive(_, _)
PivotsPositive(m, i) == i = 0 \/ (PivotsPositive(m, i - 1) /\ Pivot(m, i) > 0)

CholFactor(m) ==
    [i \in 1..Dim(m) |-> [j \in 1..Dim(m) |-> IF j <= i THEN CholL(m, i, j) ELSE 0]]

NaNMatrix(n) == [i \in 1..n |-> [j \in 1..n |-> NaN]]

\* np.linalg.cholesky(m): the set of outcomes, None for LinAlgError.  On a
\* matrix holding NaN the LAPACK build decides: reference LAPACK tests the
\* pivot with disnan and fails, OpenBLAS tests only pivot <= 0 and returns a
\* NaN factor.
Cholesky(m) ==
    IF MatHasNaN(m) THEN {None, Some(NaNMatrix(Dim(m)))}
    ELSE IF PivotsPositive(m, Dim(m)) THEN {Some(CholFactor(m))}
    ELSE {None}

(* ------------------------- random generator --------------------------- *)
\* The k-th standard normal draw (k = 0, 1, ...) of a generator seeded with
\* seed, in whole standard deviations: a fixed function of (seed, k), whose
\* numbers of draws above and below zero differ from one year of days to the
\* next.
StreamValue(seed, k) ==
    ((seed * (k + 1) + (k \div 3) + (k \div 5) + (k \div 7)) % 3) - 1

\* rng.normal(loc, scale, size = n): n consecutive draws of the stream
RngNormal(g, loc, scale, n) ==
    [p \in 1..n |->
        IF IsNaN(loc) \/ IsNaN(scale) THEN NaN
        ELSE loc + scale * StreamValue(g.seed, g.pos + p - 1)]

\* rng.standard_normal(size = (n, a)): n * a consecutive draws, row-major
RngStandardNormal(g, n, a) ==
    [p \in 1..n |-> [i \in 1..a |-> StreamValue(g.seed, g.pos + (p - 1) * a + (i - 1))]]

\* faulty variant of Advance: the generator stays where it is
Stalled(g, count) == g

\* the generator after count draws
Advance(g, count) == [g EXCEPT !.pos = g.pos + count]

(* ------------------------- path simulation ---------------------------- *)
DotNaN(x, y) ==
    IF HasNaN(x) \/ HasNaN(y) THEN NaN
    ELSE SumSeq([k \in 1..Len(x) |-> x[k] * y[k]])

\* standard_normals @ chol.T, then += mean_returns (a length-1 mean vector is
\* broadcast over the asset columns)
Correlated(z, factor, means) ==
    [p \in 1..Len(z) |->
        [i \in 1..Dim(factor) |->
            AddNaN(DotNaN(z[p], factor[i]),
                   IF Len(means) = 1 THEN means[1] ELSE means[i])]]

\* correlated @ weights_array: one portfolio return per path
WeightedReturns(correlated, w) ==
    [p \in 1..Len(correlated) |->
        IF IsNaN(DotNaN(correlated[p], w)) THEN NaN
        ELSE DotNaN(correlated[p], w) \div WEIGHT_UNIT]

\* value * (1 + r), r in basis points
Compound(v, r) ==
    IF IsNaN(v) \/ IsNaN(r) THEN NaN
    ELSE v + (v \div SCALE) * r + ((v % SCALE) * r) \div SCALE

\* current_values *= (1 + daily_returns)
CompoundAll(values, returns) == [p \in 1..Len(values) |-> Compound(values[p], returns[p])]

(* ---------------------------- aggregation ----------------------------- *)
\* faulty variant of Concatenate: only the snapshot that arrived first is kept
FirstArrayOnly(arrays) == IF arrays = <<>> THEN <<>> ELSE arrays[1]

RECURSIVE Concatenate(_)
Concatenate(arrays) ==
    IF arrays = <<>> THEN <<>> ELSE Head(arrays) \o Concatenate(Tail(arrays))

RECURSIVE Insert(_, _)
Insert(x, s) ==
    IF s = <<>> THEN <<x>>
    ELSE IF x <= Head(s) THEN <<x>> \o s
    ELSE <<Head(s)>> \o Insert(x, Tail(s))

\* faulty variant of Sorted: the samples are left in the order of arrival
Unsorted(s) == s

RECURSIVE Sorted(_)
Sorted(s) == IF s = <<>> THEN <<>> ELSE Insert(Head(s), Sorted(Tail(s)))

\* np.percentile(samples, q): linear interpolation at position q/100 * (n - 1)
\* of the sorted samples
Percentile(samples, q) ==
    IF HasNaN(samples) THEN NaN
    ELSE LET srt  == Sorted(samples)
             pos  == q * (Len(samples) - 1)
             lo   == (pos \div 100) + 1
             frac == pos % 100
         IN  IF frac = 0 THEN srt[lo]
             ELSE srt[lo] + ((srt[lo + 1] - srt[lo]) \div 100) * frac
                          + (((srt[lo + 1] - srt[lo]) % 100) * frac) \div 100

\* np.mean(samples)
Mean(samples) ==
    IF HasNaN(samples) THEN NaN ELSE SumSeq(samples) \div Len(samples)

\* lines 110-114: the samples of one year
YearSamples(collected, initial) ==
    IF collected # <<>> THEN Concatenate(collected) ELSE <<initial>>

\* lines 103-119: the four sequences, one entry per year of yrs in order
\* faulty variant of Percentiles: the last requested year is left out
PercentilesButLastYear(yrs, collected, initial) ==
    [p10  |-> [i \in 1..(Len(yrs) - 1) |-> Percentile(YearSamples(collected[yrs[i]], initial), 10)],
     p50  |-> [i \in 1..(Len(yrs) - 1) |-> Percentile(YearSamples(collected[yrs[i]], initial), 50)],
     p90  |-> [i \in 1..(Len(yrs) - 1) |-> Percentile(YearSamples(collected[yrs[i]], initial), 90)],
     mean |-> [i \in 1..(Len(yrs) - 1) |-> Mean(YearSamples(collected[yrs[i]], initial))]]

Percentiles(yrs, collected, initial) ==
    [p10  |-> [i \in 1..Len(yrs) |-> Percentile(YearSamples(collected[yrs[i]], initial), 10)],
     p50  |-> [i \in 1..Len(yrs) |-> Percentile(YearSamples(collected[yrs[i]], initial), 50)],
     p90  |-> [i \in 1..Len(yrs) |-> Percentile(YearSamples(collected[yrs[i]], initial), 90)],
     mean |-> [i \in 1..Len(yrs) |-> Mean(YearSamples(collected[yrs[i]], initial))]]

\* line 73: list(range(1, num_years + 1))
\* faulty variant of YearList: range(num_years) instead of range(1, num_years + 1)
YearListFromZero(n) == [i \in 1..n |-> i - 1]

YearList(n) == [i \in 1..n |-> i]

\* line 74: day -> year
\* faulty variant of CaptureLookup: the value is captured one day early
CaptureLookupDayBefore(yrs) ==
    [d \in {yrs[i] * DAYS_IN_YEAR - 1 : i \in 1..Len(yrs)} |-> (d + 1) \div DAYS_IN_YEAR]

CaptureLookup(yrs) ==
    [d \in {yrs[i] * DAYS_IN_YEAR : i \in 1..Len(yrs)} |-> d \div DAYS_IN_YEAR]

(* ------------------- floats of the CAGR functions --------------------- *)
\* The CAGR functions divide prices, so their floats are modelled as exact
\* fractions <<n, d>> in lowest terms with d >= 0: d > 0 is the finite value
\* n/d, <<1, 0>> is inf, <<-1, 0>> is -inf and <<0, 0>> is NaN.
RECURSIVE Gcd(_, _)
Gcd(a, b) == IF b = 0 THEN a ELSE Gcd(b, a % b)

AbsInt(x) == IF x < 0 THEN 0 - x ELSE x
Sign(x) == IF x > 0 THEN 1 ELSE IF x < 0 THEN 0 - 1 ELSE 0

Frac(n, d) ==
    IF d = 0 THEN <<Sign(n), 0>>
    ELSE IF n = 0 THEN <<0, 1>>
    ELSE <<(Sign(d) * n) \div Gcd(AbsInt(n), AbsInt(d)),
           AbsInt(d) \div Gcd(AbsInt(n), AbsInt(d))>>

FInt(k) == <<k, 1>>
FInf == <<1, 0>>
FNaN == <<0, 0>>
FIsNaN(a) == a = FNaN
FIsFinite(a) == a[2] > 0

FMul(a, b) == Frac(a[1] * b[1], a[2] * b[2])

\* a / b: x / 0 is inf, -inf or NaN, x / inf is 0, no exception (float division)
FDiv(a, b) == Frac(a[1] * b[2] * (IF b[1] < 0 THEN 0 - 1 ELSE 1),
                   a[2] * AbsInt(b[1]))

FAdd(a, b) ==
    IF FIsNaN(a) \/ FIsNaN(b) THEN FNaN
    ELSE IF a[2] = 0 /\ b[2] = 0 THEN (IF a = b THEN a ELSE FNaN)
    ELSE Frac(a[1] * b[2] + b[1] * a[2], a[2] * b[2])

\* a <= 0: false for NaN
FLeqZero(a) == IF a[2] = 0 THEN a[1] < 0 ELSE a[1] <= 0

RECURSIVE FSum(_)
FSum(s) == IF s = <<>> THEN FInt(0) ELSE FAdd(Head(s), FSum(Tail(s)))

RECURSIVE FPow(_, _)
\* a ** k for a natural number k
FPow(a, k) == IF k = 0 THEN FInt(1) ELSE FMul(a, FPow(a, k - 1))


(* --------------------------- CAGR functions --------------------------- *)
\* A price table is a sequence of rows (dates, oldest first); a row holds one
\* integer price per ticker column.
\* row i of a table that starts at row `start` and grows by the factor g a day
GrowthRow(start, g, i) == [j \in 1..Len(start) |-> FMul(FInt(start[j]), FPow(g, i - 1))[1]]

GrowthTable(start, g, n) == [i \in 1..n |-> GrowthRow(start, g, i)]

\* every price of every column is the price of the day before times g
HasGrowth(t, g) ==
    \A i \in 1..(Len(t) - 1) : \A j \in 1..Len(t[i]) :
        FInt(t[i + 1][j]) = FMul(FInt(t[i][j]), g)

\* daily growth factors 1, 2 and 1.5: no factor below 1, whose 252nd power is
\* too small for a float to tell g ** 252 - 1 from -1.0
GrowthFactors == { <<1, 1>>, <<2, 1>>, <<3, 2>> }
StartRows == { <<400>>, <<400, 200>> }

\* tables with a zero or negative price, and one whose columns grow differently
DegenerateTables ==
    { << <<0>>, <<400>> >>,
      << <<0, 200>>, <<400, 400>> >>,
      << <<400>>, <<0>> >>,
      << <<0 - 400>>, <<400>> >>,
      << <<400, 200>>, <<600, 200>> >> }

PriceTables ==
    { <<>> }
      \cup { GrowthTable(start, g, n) : start \in StartRows, g \in GrowthFactors,
                                         n \in 1..MaxRows }
      \cup DegenerateTables

PortfolioWeights == WeightVectors \cup { <<100, 0>> }

\* what a call gave back: the float base ** (252 / days) - 1.0 when it returned,
\* the exception when it raised.  The power is kept as its base and exponent;
\* 1.0 ** x - 1.0 is exactly 0.0.
NotCalled == [outcome |-> "none", base |-> FInt(1), days |-> 1, error |-> ""]
Returned(base, days) == [outcome |-> "returned", base |-> base, days |-> days, error |-> ""]
Raised(e) == [outcome |-> "raised", base |-> FInt(1), days |-> 1, error |-> e]
ZeroCagr == Returned(FInt(1), 1)

\* price_data.iloc[i].mean()
RowMean(row) == Frac(SumSeq(row), Len(row))

\* lines 147-152 and 182-187: the guard and the CAGR formula
CagrFormula(initial_value, final_value, num_days) ==
    IF FLeqZero(initial_value) \/ FLeqZero(final_value) \/ num_days <= 0
    THEN ZeroCagr
    ELSE Returned(FDiv(final_value, initial_value), num_days)

\* calculate_historical_cagr(price_data)
HistoricalCagr(t) ==
    IF Len(t) = 0 THEN Raised("IndexError")
    ELSE CagrFormula(RowMean(t[1]), RowMean(t[Len(t)]), Len(t))

\* price_data / price_data.iloc[0]
NormalizedPrices(t) ==
    [i \in 1..Len(t) |-> [j \in 1..Len(t[i]) |-> FDiv(FInt(t[i][j]), FInt(t[1][j]))]]

\* normalized_prices.dot(weights_array): one value per row
PortfolioValues(normalized, w) ==
    [i \in 1..Len(normalized) |->
        FSum([j \in 1..Len(w) |-> FMul(normalized[i][j], Frac(w[j], WEIGHT_UNIT))])]

\* calculate_portfolio_historical_cagr(price_data, weights)
PortfolioHistoricalCagr(t, w) ==
    IF Len(t) = 0 THEN Raised("IndexError")
    ELSE IF Len(t[1]) # Len(w) THEN Raised("ValueError")
    ELSE CagrFormula(PortfolioValues(NormalizedPrices(t), w)[1],
                     PortfolioValues(NormalizedPrices(t), w)[Len(t)],
                     Len(t))

(* ---------------- the call site: main.py analyze_portfolio ------------ *)
\* A dict of Python keeps its keys in the order of their first insertion: the
\* fetched price map is modelled by the sequence of its keys (tickers).
RECURSIVE Filter(_, _)
\* [t for t in s if t in keep]
Filter(s, keep) ==
    IF s = <<>> THEN <<>>
    ELSE IF Head(s) \in keep THEN <<Head(s)>> \o Filter(Tail(s), keep)
    ELSE Filter(Tail(s), keep)

Elements(s) == {s[i] : i \in 1..Len(s)}

\* prices_data.update(new_data): new keys are appended, present keys keep their place
DictUpdate(keys, new) == keys \o Filter(new, Elements(new) \ Elements(keys))

\* provider.get_prices(requested, ...): an exception (None), or a map with the
\* tickers the source delivered, in the order they were requested
ProviderOutcomes(requested) ==
    {None} \cup {Some(Filter(requested, ok)) : ok \in SUBSET Elements(requested)}

\* the keys a provider call adds, none if it raised
Delivered(fetched) == IF IsNone(fetched) THEN <<>> ELSE Get(fetched)

\* line 186: more uncached tickers than this are split between two sources
AV_BATCH == 5

FirstN(s, n) == [i \in 1..Min(n, Len(s)) |-> s[i]]
DropN(s, n) == [i \in 1..(Len(s) - Min(n, Len(s))) |-> s[i + Min(n, Len(s))]]

\* the requests: tickers are distinct (validate_portfolio_inputs), weights in percent
Portfolios ==
    { [tickers |-> <<"A">>, weights |-> <<100>>],
      [tickers |-> <<"A", "B">>, weights |-> <<60, 40>>],
      [tickers |-> <<"A", "B">>, weights |-> <<100, 0>>],
      [tickers |-> <<"A", "B", "C">>, weights |-> <<50, 30, 20>>],
      [tickers |-> <<"A", "B", "C", "D", "E", "F">>, weights |-> <<30, 25, 20, 15, 6, 4>>] }

PrimarySources == {"yfinance", "alpha_vantage"}

\* [i for i, t in enumerate(portfolio.tickers) if t in prices_data]
AvailableIndices(p, keys) ==
    Filter([i \in 1..Len(p.tickers) |-> i],
           {i \in 1..Len(p.tickers) : p.tickers[i] \in Elements(keys)})

\* sum(portfolio.weights[i] for i in available_indices)
OriginalWeightsSum(p, keys) ==
    SumSeq([k \in 1..Len(AvailableIndices(p, keys)) |-> p.weights[AvailableIndices(p, keys)[k]]])

\* faulty variant of AdjustedWeights: the available weights are kept as given
AvailableWeightsAsGiven(p, keys) ==
    IF Len(keys) = Len(p.tickers)
    THEN [i \in 1..Len(p.weights) |-> Frac(p.weights[i], WEIGHT_UNIT)]
    ELSE [k \in 1..Len(AvailableIndices(p, keys)) |->
            Frac(p.weights[AvailableIndices(p, keys)[k]], WEIGHT_UNIT)]

\* lines 525-538: the weights handed on, as floats
AdjustedWeights(p, keys) ==
    IF Len(keys) = Len(p.tickers)
    THEN [i \in 1..Len(p.weights) |-> Frac(p.weights[i], WEIGHT_UNIT)]
    ELSE [k \in 1..Len(AvailableIndices(p, keys)) |->
            Frac(p.weights[AvailableIndices(p, keys)[k]], OriginalWeightsSum(p, keys))]

AdjustedTickers(p, keys) ==
    IF Len(keys) = Len(p.tickers) THEN p.tickers ELSE Filter(p.tickers, Elements(keys))

(* -------------- the cache: cache_manager.py StockDataCache ------------ *)
\* __init__: ttl_hours = 24, ttl_seconds = ttl_hours * 3600
TTL_HOURS == 24
SECONDS_PER_HOUR == 3600
ttl_seconds == TTL_HOURS * SECONDS_PER_HOUR

\* the clock moves in steps of twelve hours, MaxTicks times
MaxTicks == 3
TickSeconds == 12 * SECONDS_PER_HOUR

\* the number of calls of the cache in one behaviour
MaxCalls == 4

\* (ticker, start_date, end_date) as fetch_prices_with_cache_and_hybrid passes
\* them: tickers match TICKER_PATTERN, dates are strftime('%Y-%m-%d')
CacheKeys ==
    { <<"AAPL", "2025-11-02", "2026-11-02">>,
      <<"MSFT", "2025-11-02", "2026-11-02">>,
      <<"AAPL", "2025-11-03", "2026-11-03">> }

\* lines 37-43: f"{ticker}_{start_date}_{end_date}", then cache_dir / f"{key}.json"
CacheKey(k) == k[1] \o "_" \o k[2] \o "_" \o k[3]
CachePath(k) == CacheKey(k) \o ".json"

\* values of Python and of JSON carry their type
PyList(items) == <<"list", items>>
JsonArray(items) == <<"array", items>>

\* json.dump of a list (or tuple) is an array; json.load of an array is a list
JsonDump(v) == JsonArray(v[2])
JsonLoad(j) == PyList(j[2])

\* closing prices in cents
Quote == [AAPL |-> 40000, MSFT |-> 80000]

\* what the providers deliver for a key: a list of {"date", "close"} dicts
Payloads(k) ==
    { [data |-> PyList(<< [date |-> k[2], close |-> Quote[k[1]]] >>),
       source |-> "yfinance"],
      [data |-> PyList(<< [date |-> k[2], close |-> Quote[k[1]]],
                          [date |-> k[3], close |-> Quote[k[1]] + 100] >>),
       source |-> "alpha_vantage"] }

\* lines 97-108: the dict written by set, as the JSON text of the file
CacheEntry(k, payload, now) ==
    [timestamp |-> now, ticker |-> k[1], start_date |-> k[2], end_date |-> k[3],
     source |-> payload.source, data |-> JsonDump(payload.data)]

\* faulty variant of Expired: an entry whose age equals the TTL is expired
ExpiredAtTtl(now, cached_time) == now - cached_time >= ttl_seconds

\* line 69: time.time() - cached_time > self.ttl_seconds
Expired(now, cached_time) == now - cached_time > ttl_seconds

\* cache_path.unlink()
Unlink(files, path) == [f \in (DOMAIN files) \ {path} |-> files[f]]

\* lines 57-75: what get returns, (data, source) or (None, None)
GetResult(files, k, now) ==
    IF CachePath(k) \notin DOMAIN files THEN <<None, None>>
    ELSE IF Expired(now, files[CachePath(k)].timestamp) THEN <<None, None>>
    ELSE <<Some(JsonLoad(files[CachePath(k)].data)), Some(files[CachePath(k)].source)>>

\* lines 69-72: an expired entry is deleted by the get that finds it
FilesAfterGet(files, k, now) ==
    IF CachePath(k) \notin DOMAIN files THEN files
    ELSE IF Expired(now, files[CachePath(k)].timestamp) THEN Unlink(files, CachePath(k))
    ELSE files

\* monte_carlo.py lines 12-18: the parameters of run_monte_carlo_simulation
Parameters == {"daily_returns", "weights", "num_years", "num_paths", "initial_value"}

\* main.py lines 625-633: the keywords analyze_portfolio passes
KeywordsPassed ==
    {"daily_returns", "weights", "num_years", "initial_value",
     "periodic_contribution", "contribution_frequency", "num_paths"}

\* a call with a keyword the function has no parameter for raises TypeError
\* before the function's body runs; otherwise the response gets the projections
CallOutcome(keywords, parameters) ==
    IF keywords \subseteq parameters THEN "projections" ELSE "TypeError"

(* ------------------------------ state --------------------------------- *)
VARIABLES
    args,               \* the call's arguments, as the caller passed them
    env,                \* the environment variables the call has read: name -> value
    pc,                 \* position in run_monte_carlo_simulation
    outcome,            \* "none" while running, then "returned" or "raised"
    error,              \* the exception raised, "" if none
    result,             \* None until the return statement, then Some(the returned dict)
    num_paths, total_days, mean_returns, cov_matrix, weights_array, asset_count,
    rng,                \* the generator the draws are taken from
    chol, mean_return_single, std_return_single,
    years, capture_lookup, yearly_values,
    chunk_size, chunk_start, paths_in_chunk, current_values, day,
    views,              \* the collected snapshots, as (year, index), that are the
                        \* same array as current_values
    at_boundary,        \* history: the path values as they were on every year's
                        \* last day, chunk by chunk
    daily_returns,      \* the local name: the parameter (a DataFrame), rebound
                        \* by line 86/95 to the day's returns (an ndarray)
    cholCalls,          \* history: the matrices handed to np.linalg.cholesky
    batches,            \* history: paths_in_chunk of every chunk started
    callNo,             \* 1 for the first call, 2 for a repeated call
    first,              \* what the first call was given and ended with
    price_data,         \* the price table handed to the CAGR functions
    portfolio_weights,  \* the weights handed to calculate_portfolio_historical_cagr
    cagr,               \* what calculate_historical_cagr gave back
    portfolio_cagr,     \* what calculate_portfolio_historical_cagr gave back
    portfolio,          \* analyze_portfolio: the request's tickers and weights
    primary_source,     \* analyze_portfolio: the data source asked first
    cache_hits,         \* the tickers the cache holds data for
    site_pc,            \* position in analyze_portfolio
    prices_data,        \* the keys of the fetched price map, in insertion order
    uncached_tickers,
    source_info,        \* the keys of the source-info map
    io,                 \* history: the tickers asked of a provider, the tickers a
                        \* provider delivered, the tickers cache.set was called for
    cache_files,        \* StockDataCache: the files of cache_dir, path -> content
    clock,              \* time.time(), in seconds
    set_log,            \* history: the last cache.set of every key
    cache_op,           \* history: the last call of the cache and what it returned
    cache_calls,        \* history: the number of calls of the cache
    adjusted_tickers, adjusted_weights,
    data,               \* the columns of the DataFrame of line 560, in order
    response            \* "none", "error" (an error dict was returned), "TypeError"
                        \* (the simulation call raised) or "projections"

inputVars  == <<args, env>>
outVars    == <<outcome, error, result>>
statVars   == <<num_paths, total_days, mean_returns, cov_matrix, weights_array, asset_count>>
samplerVars == <<chol, mean_return_single, std_return_single, cholCalls>>
aggVars    == <<years, capture_lookup, yearly_values>>
loopVars   == <<chunk_size, chunk_start, paths_in_chunk, current_values, day, batches,
                views, at_boundary>>
histVars   == <<callNo, first>>
\* the variables of run_monte_carlo_simulation and of its caller's two calls
simVars    == <<args, env, pc, outcome, error, result,
                num_paths, total_days, mean_returns, cov_matrix, weights_array,
                asset_count, rng, chol, mean_return_single, std_return_single,
                years, capture_lookup, yearly_values,
                chunk_size, chunk_start, paths_in_chunk, current_values, day,
                views, at_boundary,
                daily_returns, cholCalls, batches, callNo, first>>
cagrVars   == <<price_data, portfolio_weights, cagr, portfolio_cagr>>
\* the variables run_monte_carlo_simulation has no access to
siteVars   == <<portfolio, primary_source, cache_hits, site_pc, prices_data,
                uncached_tickers, source_info, io,
                adjusted_tickers, adjusted_weights, data, response>>
cacheVars  == <<cache_files, clock, set_log, cache_op, cache_calls>>
outsideVars == <<cagrVars, siteVars, cacheVars>>

vars == <<args, env, pc, outcome, error, result,
          num_paths, total_days, mean_returns, cov_matrix, weights_array, asset_count,
          rng, chol, mean_return_single, std_return_single,
          years, capture_lookup, yearly_values,
          chunk_size, chunk_start, paths_in_chunk, current_values, day,
          views, at_boundary,
          daily_returns, cholCalls, batches, callNo, first,
          price_data, portfolio_weights, cagr, portfolio_cagr,
          portfolio, primary_source, cache_hits, site_pc, prices_data,
          uncached_tickers, source_info, io,
          adjusted_tickers, adjusted_weights, data, response,
          cache_files, clock, set_log, cache_op, cache_calls>>

\* The volatile table is simulated for one year and at most two paths: its
\* values stay within the range of the integers that hold them here.
ValuesInRange(a) ==
    IF a.daily_returns # TableVolatile THEN TRUE
    ELSE IF a.num_years # 1 THEN FALSE
    ELSE IF IsNone(a.num_paths) THEN TRUE
    ELSE Get(a.num_paths) <= 2

\* the arguments a caller can pass: num_paths is an optional keyword; rng and
\* chunk_size are keywords callers pass that the signature does not have
Arguments ==
    {a \in [daily_returns : ReturnTables,
            weights       : WeightVectors,
            num_years     : 1..MaxYears,
            num_paths     : {None} \cup {Some(n) : n \in {0 - 3} \cup 0..MaxPaths},
            initial_value : InitialValues,
            rng           : {None} \cup {Some(s) : s \in 1..MaxSeed},
            chunk_size    : {None, Some(2)}] :
        ValuesInRange(a)}

\* what the name daily_returns is bound to: a value of Python carries its type
DataFrame(t) == <<"DataFrame", t>>
NdArray(v) == <<"ndarray", v>>
ValueOf(x) == x[2]

\* the locals of a call that has not started
FreshLocals ==
    /\ pc = "call"
    /\ outcome = "none" /\ error = "" /\ result = None
    /\ num_paths = 0 /\ total_days = 0
    /\ mean_returns = <<>> /\ cov_matrix = <<>>
    /\ weights_array = <<>> /\ asset_count = 0
    /\ rng = None
    /\ chol = None /\ mean_return_single = 0 /\ std_return_single = 0
    /\ years = <<>> /\ capture_lookup = <<>> /\ yearly_values = <<>>
    /\ chunk_size = 0 /\ chunk_start = 0 /\ paths_in_chunk = 0
    /\ current_values = <<>> /\ day = 0
    /\ views = {} /\ at_boundary = <<>>
    /\ daily_returns = <<>>
    /\ cholCalls = <<>> /\ batches = <<>>

\* lines 41-42: the requested path count, None when int() raises ValueError;
\* count is the value of MC_PATH_COUNT
RequestedPaths(a, count) ==
    IF IsNone(a.num_paths) THEN GetenvInt(count, DEFAULT_MC_PATH_COUNT)
    ELSE a.num_paths

\* faulty variant of DefaultRng: one generator of the process, which a later
\* call takes up where the call before it left it
ProcessWideRng(seed) ==
    IF IsNone(first) THEN Some([seed |-> seed, pos |-> 0])
    ELSE IF IsNone(Get(first).seed) THEN Some([seed |-> seed, pos |-> 0])
    ELSE Get(first).seed

\* line 57: np.random.default_rng(), a new generator seeded from fresh entropy
DefaultRng(seed) == Some([seed |-> seed, pos |-> 0])

\* faulty variant of EffectivePaths: without the clamp max(1, ...)
EffectivePathsUnclamped(requested) == requested

\* line 43: the effective path count
EffectivePaths(requested) == Max(1, requested)

\* calls whose path count is within the bound of the model
WithinBounds(a, count) ==
    IF IsNone(RequestedPaths(a, count)) THEN TRUE
    ELSE Get(RequestedPaths(a, count)) <= MaxPaths

\* lines 77-78: the effective chunk size, None when int() raises ValueError;
\* size is the value of MC_PATH_CHUNK_SIZE
\* faulty variant of EffectiveChunkSize: without the lower clamp max(1, ...)
EffectiveChunkSizeUnclamped(size, paths) ==
    IF IsNone(GetenvInt(size, DEFAULT_MC_PATH_CHUNK_SIZE)) THEN None
    ELSE Some(Min(Get(GetenvInt(size, DEFAULT_MC_PATH_CHUNK_SIZE)), paths))

EffectiveChunkSize(size, paths) ==
    IF IsNone(GetenvInt(size, DEFAULT_MC_PATH_CHUNK_SIZE)) THEN None
    ELSE Some(Max(1, Min(Get(GetenvInt(size, DEFAULT_MC_PATH_CHUNK_SIZE)), paths)))

\* the cache directory is empty and the cache has not been called
CacheIdle ==
    /\ cache_files = <<>>
    /\ clock = 0
    /\ set_log = [k \in CacheKeys |-> None]
    /\ cache_op = [name |-> "none"]
    /\ cache_calls = 0

\* no provider has been asked and nothing has been written to the cache
NoCalls == [asked |-> {}, delivered |-> {}, stored |-> {}]

\* no CAGR function has been called
CagrIdle ==
    /\ price_data = <<>>
    /\ portfolio_weights = <<>>
    /\ cagr = NotCalled
    /\ portfolio_cagr = NotCalled

\* no request is being analyzed
SiteIdle ==
    /\ portfolio = [tickers |-> <<>>, weights |-> <<>>]
    /\ primary_source = "yfinance"
    /\ cache_hits = {}
    /\ site_pc = "idle"
    /\ prices_data = <<>>
    /\ uncached_tickers = <<>>
    /\ source_info = {}
    /\ io = NoCalls
    /\ adjusted_tickers = <<>>
    /\ adjusted_weights = <<>>
    /\ data = <<>>
    /\ response = "none"

Init ==
    /\ args \in Arguments
    /\ env = <<>>
    /\ FreshLocals
    /\ callNo = 1
    /\ first = None
    /\ CagrIdle
    /\ SiteIdle
    /\ CacheIdle

\* an exception leaves the function: nothing is returned
Raise(e) ==
    /\ pc' = "done"
    /\ outcome' = "raised"
    /\ error' = e
    /\ result' = result

(* ------------------------------ actions ------------------------------- *)
\* lines 12-57: argument binding, path count, statistics, generator.  The
\* signature has no rng parameter: a call that passes rng = ... is rejected
\* with TypeError before the body runs.  default_rng() takes its seed from
\* operating-system entropy.
Call ==
    /\ pc = "call"
    /\ IF ~IsNone(args.rng) \/ ~IsNone(args.chunk_size)
       THEN /\ Raise("TypeError")
            /\ UNCHANGED <<env, statVars, rng, daily_returns>>
       ELSE \E count \in EnvPathCounts :
              /\ WithinBounds(args, count)
              /\ env' = IF IsNone(args.num_paths) THEN ("MC_PATH_COUNT" :> count) ELSE env
              /\ IF IsNone(RequestedPaths(args, count))
                 THEN /\ Raise("ValueError")
                      /\ UNCHANGED <<statVars, rng, daily_returns>>
                 ELSE /\ num_paths' = EffectivePaths(Get(RequestedPaths(args, count)))
                      /\ total_days' = DAYS_IN_YEAR * args.num_years
                      /\ daily_returns' = DataFrame(args.daily_returns)
                      /\ mean_returns' = MeanReturns(args.daily_returns)
                      /\ cov_matrix' = CovMatrix(args.daily_returns)
                      /\ weights_array' = args.weights
                      /\ asset_count' = Len(args.weights)
                      /\ \E seed \in 1..MaxSeed : rng' = DefaultRng(seed)
                      /\ pc' = "decompose"
                      /\ UNCHANGED outVars
    /\ UNCHANGED <<args, samplerVars, aggVars, loopVars, histVars, outsideVars>>

\* lines 60-64 and 68-71: the first decomposition, or the single-asset statistics
Decompose ==
    /\ pc = "decompose"
    /\ IF asset_count > 1
       THEN /\ cholCalls' = Append(cholCalls, cov_matrix)
            /\ \E factor \in Cholesky(cov_matrix) :
                 /\ chol' = IF IsNone(factor) THEN chol ELSE Get(factor)
                 /\ pc' = IF IsNone(factor) THEN "retry" ELSE "setup"
            /\ UNCHANGED <<mean_return_single, std_return_single>>
       ELSE /\ mean_return_single' = mean_returns[1]
            /\ std_return_single' =
                 IF IsNaN(cov_matrix[1][1]) THEN NaN
                 ELSE ISqrt(Max(cov_matrix[1][1], 0))
            /\ pc' = "setup"
            /\ UNCHANGED <<chol, cholCalls>>
    /\ UNCHANGED <<inputVars, outVars, statVars, rng, aggVars, loopVars,
                   daily_returns, histVars, outsideVars>>

\* lines 64-67: LinAlgError was caught; the decomposition is tried again on
\* cov_matrix + jitter, outside any try block
JitterRetry ==
    /\ pc = "retry"
    /\ IF ~CanBroadcast(cov_matrix, Jitter(asset_count))
       THEN /\ Raise("ValueError")
            /\ UNCHANGED <<chol, cholCalls>>
       ELSE /\ cholCalls' = Append(cholCalls, BroadcastAdd(cov_matrix, Jitter(asset_count)))
            /\ \E factor \in Cholesky(BroadcastAdd(cov_matrix, Jitter(asset_count))) :
                 IF IsNone(factor)
                 THEN /\ Raise("LinAlgError")
                      /\ UNCHANGED chol
                 ELSE /\ chol' = Get(factor)
                      /\ pc' = "setup"
                      /\ UNCHANGED outVars
    /\ UNCHANGED <<inputVars, statVars, rng, mean_return_single, std_return_single,
                   aggVars, loopVars, daily_returns, histVars, outsideVars>>

\* lines 73-78: years, capture table, empty collections, effective chunk size
Setup ==
    /\ pc = "setup"
    /\ years' = YearList(args.num_years)
    /\ capture_lookup' = CaptureLookup(years')
    /\ yearly_values' = [y \in {years'[i] : i \in 1..Len(years')} |-> <<>>]
    /\ at_boundary' = [y \in {years'[i] : i \in 1..Len(years')} |-> <<>>]
    /\ \E size \in EnvChunkSizes :
         /\ env' = env @@ ("MC_PATH_CHUNK_SIZE" :> size)
         /\ IF IsNone(EffectiveChunkSize(size, num_paths))
            THEN /\ Raise("ValueError")
                 /\ UNCHANGED <<chunk_size, chunk_start>>
            ELSE /\ chunk_size' = Get(EffectiveChunkSize(size, num_paths))
                 /\ chunk_start' = 0
                 /\ pc' = "chunk"
                 /\ UNCHANGED outVars
    /\ UNCHANGED <<args, statVars, rng, samplerVars, paths_in_chunk,
                   current_values, day, batches, views, daily_returns, histVars,
                   outsideVars>>

\* line 81: the paths of the chunk starting at index start
\* faulty variant of PathsInChunk: the last chunk is not cut to the remainder
PathsInChunkFull(size, paths, start) == size

PathsInChunk(size, paths, start) == Min(size, paths - start)

\* faulty variant of Full: the values of the chunk before are carried over
CarriedOver(n, value) ==
    [p \in 1..n |-> IF p <= Len(current_values) THEN current_values[p] ELSE value]

\* line 82: np.full(paths_in_chunk, initial_value)
Full(n, value) == [p \in 1..n |-> value]

\* faulty variant of ChunkStart: the covariance matrix is decomposed again at
\* the head of every chunk
ChunkStartDecomposing ==
    /\ pc = "chunk"
    /\ IF chunk_start < num_paths
       THEN /\ paths_in_chunk' = PathsInChunk(chunk_size, num_paths, chunk_start)
            /\ current_values' = Full(paths_in_chunk', args.initial_value)
            /\ views' = {}
            /\ batches' = Append(batches, paths_in_chunk')
            /\ cholCalls' = Append(cholCalls, cov_matrix)
            /\ day' = 0
            /\ pc' = "day"
       ELSE /\ pc' = "aggregate"
            /\ UNCHANGED <<paths_in_chunk, current_values, batches, day, cholCalls,
                           views>>
    /\ UNCHANGED <<inputVars, outVars, statVars, rng, chol, mean_return_single,
                   std_return_single, aggVars, chunk_size, chunk_start,
                   at_boundary, daily_returns, histVars, outsideVars>>

\* lines 80-82: the head of the chunk loop, range(0, num_paths, chunk_size)
ChunkStart ==
    /\ pc = "chunk"
    /\ IF chunk_start < num_paths
       THEN /\ paths_in_chunk' = PathsInChunk(chunk_size, num_paths, chunk_start)
            /\ current_values' = Full(paths_in_chunk', args.initial_value)
            /\ views' = {}
            /\ batches' = Append(batches, paths_in_chunk')
            /\ day' = 0
            /\ pc' = "day"
       ELSE /\ pc' = "aggregate"
            /\ UNCHANGED <<paths_in_chunk, current_values, batches, day, views>>
    /\ UNCHANGED <<inputVars, outVars, statVars, rng, samplerVars, aggVars,
                   chunk_size, chunk_start, at_boundary, daily_returns, histVars,
                   outsideVars>>

\* lines 93-94: standard_normals @ chol.T needs a factor (chol is None when
\* asset_count is 0) of asset_count columns, and correlated += mean_returns a
\* mean vector of one or asset_count entries
CanSample ==
    IF asset_count = 1 THEN TRUE
    ELSE IF IsNone(chol) THEN FALSE
    ELSE /\ Dim(chol) = asset_count
         /\ Len(mean_returns) \in {1, asset_count}

\* lines 86-90 and 92-95: one day's portfolio return of every path of the chunk
SampleDay ==
    IF asset_count = 1
    THEN RngNormal(Get(rng), mean_return_single, std_return_single, paths_in_chunk)
    ELSE WeightedReturns(
             Correlated(RngStandardNormal(Get(rng), paths_in_chunk, asset_count),
                        chol, mean_returns),
             weights_array)

\* the draws one day takes from the generator
DrawsPerDay == IF asset_count = 1 THEN paths_in_chunk ELSE paths_in_chunk * asset_count

\* line 93 on chol = None is an AttributeError, a shape mismatch a ValueError
SampleError == IF IsNone(chol) THEN "AttributeError" ELSE "ValueError"

\* faulty variant of Copy: the array itself is appended, not a copy of it
SameArray(snapshot) == {snapshot}

\* line 101: current_values.copy() is a new array, whose buffer no other
\* array shares; snapshot is the (year, index) it is stored at
Copy(snapshot) == {}

\* line 97: current_values *= (1 + daily_returns) writes into the buffer, and
\* every array that is this buffer shows the new values
WrittenInPlace(collected, shared, values) ==
    [y \in DOMAIN collected |->
        [c \in 1..Len(collected[y]) |->
            IF <<y, c>> \in shared THEN values ELSE collected[y][c]]]

\* the arrays that are current_values after day d
Views(shared, collected, lookup, d) ==
    IF d \in DOMAIN lookup
    THEN shared \cup Copy(<<lookup[d], Len(collected[lookup[d]]) + 1>>)
    ELSE shared

\* the history after day d: on the last day of a year the values are noted
AtBoundary(noted, d, values) ==
    IF d > 0 /\ d % DAYS_IN_YEAR = 0 /\ (d \div DAYS_IN_YEAR) \in DOMAIN noted
    THEN [noted EXCEPT ![d \div DAYS_IN_YEAR] = Append(@, values)]
    ELSE noted

\* faulty variant of Capture: the values of every day are recorded, for the
\* year the day lies in
CaptureEveryDay(collected, lookup, d, values) ==
    [collected EXCEPT ![((d - 1) \div DAYS_IN_YEAR) + 1] = Append(@, values)]

\* lines 99-101: on a day of the capture table the values are appended to the
\* list of that day's year
Capture(collected, lookup, d, values) ==
    IF d \in DOMAIN lookup
    THEN [collected EXCEPT ![lookup[d]] = Append(@, values)]
    ELSE collected

\* lines 84-101: one iteration of the day loop; after the last day of the
\* chunk the chunk loop moves to its next start index
DayStep ==
    /\ pc = "day"
    /\ rng' = Some(Advance(Get(rng), DrawsPerDay))
    /\ IF ~CanSample
       THEN /\ Raise(SampleError)
            /\ UNCHANGED <<daily_returns, current_values, day, yearly_values, chunk_start,
                           views, at_boundary>>
       ELSE /\ daily_returns' = NdArray(SampleDay)
            /\ current_values' = CompoundAll(current_values, ValueOf(daily_returns'))
            /\ day' = day + 1
            /\ yearly_values' = Capture(WrittenInPlace(yearly_values, views, current_values'),
                                        capture_lookup, day', current_values')
            /\ views' = Views(views, yearly_values, capture_lookup, day')
            /\ at_boundary' = AtBoundary(at_boundary, day', current_values')
            /\ IF day' = total_days
               THEN pc' = "chunk" /\ chunk_start' = chunk_start + chunk_size
               ELSE pc' = "day" /\ chunk_start' = chunk_start
            /\ UNCHANGED outVars
    /\ UNCHANGED <<inputVars, statVars, samplerVars, years, capture_lookup,
                   chunk_size, paths_in_chunk, batches, histVars, outsideVars>>

\* lines 103-124: percentiles and mean of every year, and the return
Aggregate ==
    /\ pc = "aggregate"
    /\ result' = Some([years |-> years,
                       percentiles |-> Percentiles(years, yearly_values,
                                                   args.initial_value)])
    /\ outcome' = "returned"
    /\ pc' = "done"
    /\ UNCHANGED <<inputVars, error, statVars, rng, samplerVars, aggVars, loopVars,
                   daily_returns, histVars, outsideVars>>

Next ==
    \/ Call
    \/ Decompose
    \/ JitterRetry
    \/ Setup
    \/ ChunkStart
    \/ DayStep
    \/ Aggregate

Spec == Init /\ [][Next]_vars

\* every step of the call moves its position or its day counter
position == <<pc, day>>

\* The call runs in one thread that nothing suspends: a step that can be taken
\* is taken.
SpecLive == Init /\ [][Next]_vars /\ WF_position(Next)

(* ---------------------- two calls in one process ---------------------- *)
\* The caller calls again with the same arguments once the first call has
\* ended (tests: lines 41-59, 76-94); the environment is read afresh, so it
\* may have been changed in between (monkeypatch.setenv).
Repeat ==
    /\ pc = "done"
    /\ callNo = 1
    /\ first' = Some([env |-> env, outcome |-> outcome, error |-> error,
                      result |-> result, chunk_size |-> chunk_size,
                      num_paths |-> num_paths, seed |-> rng])
    /\ callNo' = 2
    /\ env' = <<>>
    /\ pc' = "call"
    /\ outcome' = "none" /\ error' = "" /\ result' = None
    /\ num_paths' = 0 /\ total_days' = 0
    /\ mean_returns' = <<>> /\ cov_matrix' = <<>>
    /\ weights_array' = <<>> /\ asset_count' = 0
    /\ rng' = None
    /\ chol' = None /\ mean_return_single' = 0 /\ std_return_single' = 0
    /\ years' = <<>> /\ capture_lookup' = <<>> /\ yearly_values' = <<>>
    /\ chunk_size' = 0 /\ chunk_start' = 0 /\ paths_in_chunk' = 0
    /\ current_values' = <<>> /\ day' = 0
    /\ views' = {} /\ at_boundary' = <<>>
    /\ daily_returns' = <<>>
    /\ cholCalls' = <<>> /\ batches' = <<>>
    /\ UNCHANGED <<args, outsideVars>>

\* the calls that are repeated: one projection year, matching shapes
RepeatedArguments ==
    {a \in Arguments :
        /\ a.num_years = 1
        /\ Len(a.weights) = NCols(a.daily_returns)
        /\ IF IsNone(a.num_paths) THEN FALSE ELSE Get(a.num_paths) >= MaxPaths - 1}

InitRepeat == Init /\ args \in RepeatedArguments

NextRepeat == Next \/ Repeat

SpecRepeat == InitRepeat /\ [][NextRepeat]_vars

(* --------------------- the CAGR functions, called --------------------- *)
\* no simulation is running: the arguments of test_single_asset_deterministic_paths
SimulationIdle ==
    /\ args = [daily_returns |-> TableConstSingle, weights |-> <<100>>,
               num_years |-> 1, num_paths |-> Some(1),
               initial_value |-> 5000 * VALUE_UNIT, rng |-> None,
               chunk_size |-> None]
    /\ env = <<>>
    /\ FreshLocals
    /\ callNo = 1
    /\ first = None

InitCagr ==
    /\ SimulationIdle
    /\ CacheIdle
    /\ price_data \in PriceTables
    /\ portfolio_weights \in PortfolioWeights
    /\ cagr = NotCalled
    /\ portfolio_cagr = NotCalled
    /\ SiteIdle

CalculateHistoricalCagr ==
    /\ cagr.outcome = "none"
    /\ cagr' = HistoricalCagr(price_data)
    /\ UNCHANGED <<simVars, siteVars, cacheVars, price_data, portfolio_weights, portfolio_cagr>>

CalculatePortfolioHistoricalCagr ==
    /\ portfolio_cagr.outcome = "none"
    /\ portfolio_cagr' = PortfolioHistoricalCagr(price_data, portfolio_weights)
    /\ UNCHANGED <<simVars, siteVars, cacheVars, price_data, portfolio_weights, cagr>>

NextCagr == CalculateHistoricalCagr \/ CalculatePortfolioHistoricalCagr

SpecCagr == InitCagr /\ [][NextCagr]_vars

(* ------------------- analyze_portfolio, step by step ------------------ *)
InitSite ==
    /\ SimulationIdle
    /\ CacheIdle
    /\ CagrIdle
    /\ portfolio \in Portfolios
    /\ primary_source \in PrimarySources
    /\ cache_hits \in SUBSET Elements(portfolio.tickers)
    /\ site_pc = "cache"
    /\ prices_data = <<>>
    /\ uncached_tickers = <<>>
    /\ source_info = {}
    /\ io = NoCalls
    /\ adjusted_tickers = <<>>
    /\ adjusted_weights = <<>>
    /\ data = <<>>
    /\ response = "none"

\* main.py lines 163-180: the cache is asked for every ticker, in request order
CheckCache ==
    /\ site_pc = "cache"
    /\ prices_data' = Filter(portfolio.tickers, cache_hits)
    /\ source_info' = Elements(prices_data')
    /\ uncached_tickers' = Filter(portfolio.tickers, Elements(portfolio.tickers) \ cache_hits)
    /\ site_pc' = IF uncached_tickers' = <<>> THEN "final" ELSE "fetch"
    /\ UNCHANGED <<simVars, cagrVars, cacheVars, portfolio, primary_source, cache_hits, io,
                   adjusted_tickers, adjusted_weights, data, response>>

\* the locals of fetch_prices_with_cache_and_hybrid and its calls so far
FetchState ==
    [prices |-> prices_data, info |-> source_info,
     asked |-> io.asked, delivered |-> io.delivered, stored |-> io.stored]

\* faulty variant of ProviderCall: what a provider delivered is not cached
ProviderCallWithoutCaching(st, requested, fetched) ==
    [prices    |-> DictUpdate(st.prices, Delivered(fetched)),
     info      |-> st.info \cup Elements(Delivered(fetched)),
     asked     |-> st.asked \cup Elements(requested),
     delivered |-> st.delivered \cup Elements(Delivered(fetched)),
     stored    |-> st.stored]

\* one provider.get_prices(requested, ...) and what follows it in its try
\* block (lines 196-203, 212-220, 228-235, 242-249, 258-265): the price map is
\* updated, and for every ticker delivered cache.set is called and the
\* source-info entry is made; nothing of it if the call raised
ProviderCall(st, requested, fetched) ==
    [prices    |-> DictUpdate(st.prices, Delivered(fetched)),
     info      |-> st.info \cup Elements(Delivered(fetched)),
     asked     |-> st.asked \cup Elements(requested),
     delivered |-> st.delivered \cup Elements(Delivered(fetched)),
     stored    |-> st.stored \cup Elements(Delivered(fetched))]

\* lines 186-222: the first AV_BATCH tickers from Alpha Vantage, the others (all
\* of them if Alpha Vantage raised) from yfinance
HybridFetch(st) ==
    UNION { { ProviderCall(ProviderCall(st, FirstN(uncached_tickers, AV_BATCH), av),
                           IF IsNone(av) THEN uncached_tickers
                           ELSE DropN(uncached_tickers, AV_BATCH),
                           yf) :
                yf \in ProviderOutcomes(IF IsNone(av) THEN uncached_tickers
                                        ELSE DropN(uncached_tickers, AV_BATCH)) } :
            av \in ProviderOutcomes(FirstN(uncached_tickers, AV_BATCH)) }

\* lines 224-251: the primary source for all, yfinance if it raised
PrimaryFetch(st) ==
    { ProviderCall(st, uncached_tickers, new) :
        new \in ProviderOutcomes(uncached_tickers) \ {None} }
      \cup (IF primary_source # "yfinance"
            THEN { ProviderCall(ProviderCall(st, uncached_tickers, None),
                                uncached_tickers, yf) :
                     yf \in ProviderOutcomes(uncached_tickers) }
            ELSE { ProviderCall(st, uncached_tickers, None) })

\* the locals and the history take the values of st
Becomes(st) ==
    /\ prices_data' = st.prices
    /\ source_info' = st.info
    /\ io' = [asked |-> st.asked, delivered |-> st.delivered, stored |-> st.stored]

\* lines 183-251
FetchUncached ==
    /\ site_pc = "fetch"
    /\ \E st \in (IF primary_source = "alpha_vantage" /\ Len(uncached_tickers) > AV_BATCH
                  THEN HybridFetch(FetchState)
                  ELSE PrimaryFetch(FetchState)) : Becomes(st)
    /\ site_pc' = "final"
    /\ UNCHANGED <<simVars, cagrVars, cacheVars, portfolio, primary_source, cache_hits,
                   uncached_tickers, adjusted_tickers, adjusted_weights, data, response>>

\* line 254: [t for t in tickers if t not in prices_data]
MissingTickers ==
    Filter(portfolio.tickers, Elements(portfolio.tickers) \ Elements(prices_data))

\* lines 253-270: the tickers still missing are asked from yfinance
FinalFallback ==
    /\ site_pc = "final"
    /\ IF MissingTickers # <<>> /\ primary_source # "yfinance"
       THEN \E yf \in ProviderOutcomes(MissingTickers) :
                Becomes(ProviderCall(FetchState, MissingTickers, yf))
       ELSE UNCHANGED <<prices_data, source_info, io>>
    /\ site_pc' = "analyze"
    /\ UNCHANGED <<simVars, cagrVars, cacheVars, portfolio, primary_source, cache_hits,
                   uncached_tickers, adjusted_tickers, adjusted_weights, data, response>>

\* lines 517-560 and 621-640: the weights are adjusted, the table is built with
\* one column per key of prices_data, both are handed to
\* calculate_portfolio_historical_cagr and run_monte_carlo_simulation, and the
\* response is built from what they return
AnalyzePortfolio ==
    /\ site_pc = "analyze"
    /\ site_pc' = "done"
    /\ IF prices_data = <<>>
       THEN /\ response' = "error"
            /\ UNCHANGED <<adjusted_tickers, adjusted_weights, data>>
       ELSE IF Len(prices_data) # Len(portfolio.tickers)
               /\ OriginalWeightsSum(portfolio, prices_data) <= 0
       THEN /\ response' = "error"
            /\ adjusted_tickers' = portfolio.tickers
            /\ adjusted_weights' = [i \in 1..Len(portfolio.weights) |->
                                       Frac(portfolio.weights[i], WEIGHT_UNIT)]
            /\ UNCHANGED data
       ELSE /\ adjusted_tickers' = AdjustedTickers(portfolio, prices_data)
            /\ adjusted_weights' = AdjustedWeights(portfolio, prices_data)
            /\ data' = prices_data
            /\ response' = CallOutcome(KeywordsPassed, Parameters)
    /\ UNCHANGED <<simVars, cagrVars, cacheVars, portfolio, primary_source, cache_hits,
                   prices_data, uncached_tickers, source_info, io>>

NextSite == CheckCache \/ FetchUncached \/ FinalFallback \/ AnalyzePortfolio

SpecSite == InitSite /\ [][NextSite]_vars

(* ------------------------ the cache, called --------------------------- *)
InitCache == SimulationIdle /\ CagrIdle /\ SiteIdle /\ CacheIdle

\* cache.get(ticker, start_date, end_date)
CacheGet(k) ==
    /\ cache_calls < MaxCalls
    /\ cache_op' = [name |-> "get", key |-> k, result |-> GetResult(cache_files, k, clock)]
    /\ cache_files' = FilesAfterGet(cache_files, k, clock)
    /\ cache_calls' = cache_calls + 1
    /\ UNCHANGED <<clock, set_log>>

\* cache.set(ticker, start_date, end_date, data, source)
CacheSet(k, payload) ==
    /\ cache_calls < MaxCalls
    /\ cache_files' = (CachePath(k) :> CacheEntry(k, payload, clock))
                         @@ Unlink(cache_files, CachePath(k))
    /\ set_log' = [set_log EXCEPT ![k] = Some([time |-> clock, payload |-> payload])]
    /\ cache_op' = [name |-> "set", key |-> k]
    /\ cache_calls' = cache_calls + 1
    /\ UNCHANGED clock

\* time passes between two calls
Tick ==
    /\ clock < MaxTicks * TickSeconds
    /\ clock' = clock + TickSeconds
    /\ UNCHANGED <<cache_files, set_log, cache_op, cache_calls>>

NextCache ==
    /\ \/ \E k \in CacheKeys : CacheGet(k)
       \/ \E k \in CacheKeys : \E payload \in Payloads(k) : CacheSet(k, payload)
       \/ Tick
    /\ UNCHANGED <<simVars, cagrVars, siteVars>>

SpecCache == InitCache /\ [][NextCache]_vars

(* ============================== claims ================================ *)
Abs(x) == IF x < 0 THEN 0 - x ELSE x

Keys == {"p10", "p50", "p90", "mean"}

\* both calls of a repeated call have ended
BothEnded == callNo = 2 /\ pc = "done"

\* C1: Determinism. Two calls with the same daily_returns, weights, num_years,
\* num_paths, initial_value, seed argument and chunk size end the same way and
\* return identical results.
C1_Determinism ==
    (BothEnded /\ Get(first).env = env)
        => (outcome = Get(first).outcome /\ result = Get(first).result)

\* numpy.testing.assert_allclose(actual, desired, rtol = 1e-3): NaN equals NaN
WithinTolerance(actual, desired) ==
    IF IsNaN(actual) \/ IsNaN(desired) THEN actual = desired
    ELSE Abs(actual - desired) <= Abs(desired) \div 1000

ResultsAgree(small, large) ==
    \A k \in Keys : \A i \in 1..Len(large.years) :
        WithinTolerance(small.percentiles[k][i], large.percentiles[k][i])

\* C2: Chunk-size invariance. A call with an effective chunk size below
\* num_paths and a call with the same arguments and a chunk size of at least
\* num_paths return p10, p50, p90 and mean that agree within 1e-3 relative.
C2_ChunkSizeInvariance ==
    (/\ BothEnded
     /\ outcome = "returned" /\ Get(first).outcome = "returned"
     /\ Get(first).chunk_size < Get(first).num_paths
     /\ chunk_size = num_paths)
        => ResultsAgree(Get(Get(first).result), Get(result))

(* C3 ------------------------------------------------------------------- *)
\* the closed form: v times (1 + r)^n in the fixed-point arithmetic, n factors
\* (1 + r) applied one after the other (the days are split in halves to keep
\* the evaluation shallow)
RECURSIVE CompoundDays(_, _, _)
CompoundDays(v, r, n) ==
    IF n = 0 THEN v
    ELSE IF n = 1 THEN v + (v \div SCALE) * r + ((v % SCALE) * r) \div SCALE
    ELSE CHOOSE w \in {CompoundDays(half, r, n - (n \div 2)) :
                          half \in {CompoundDays(v, r, n \div 2)}} : TRUE

\* a table of one asset column whose return is the same on every row
ConstantSingleAsset(t) == NCols(t) = 1 /\ \A i \in 1..NRows(t) : t[i][1] = t[1][1]

AnalyticCase == args.weights = <<100>> /\ ConstantSingleAsset(args.daily_returns)

\* C3: Analytic single-asset check. With one asset of weight 1.0 and a constant
\* historical return r, every path of every chunk holds initial_value compounded
\* at r over the days simulated so far, and p10, p50, p90 and mean of year y all
\* equal initial_value compounded at r over 252 * y days.
C3_AnalyticSingleAsset ==
    AnalyticCase =>
        /\ \A p \in 1..Len(current_values) : current_values[p] = current_values[1]
        /\ \A y \in DOMAIN yearly_values : \A c \in 1..Len(yearly_values[y]) :
             \A p \in 1..Len(yearly_values[y][c]) :
                 yearly_values[y][c][p] = yearly_values[y][1][1]
        /\ outcome = "returned" =>
             \A k \in Keys : \A y \in 1..args.num_years :
                 Get(result).percentiles[k][y] =
                     CompoundDays(args.initial_value, args.daily_returns[1][1],
                                  DAYS_IN_YEAR * y)

C3_Witness ==
    /\ AnalyticCase
    /\ outcome = "returned"
    /\ args.num_years = MaxYears
    /\ Len(batches) >= 2
    /\ Get(result).percentiles.p90[MaxYears] > Get(result).percentiles.p90[1]

(* C4 ------------------------------------------------------------------- *)
\* a call with valid arguments: one weight per asset column
ShapesMatch == Len(args.weights) = NCols(args.daily_returns)

\* C4: a call that passes rng = <generator> with valid arguments returns a
\* result, and its draws are taken from the generator passed.
C4_SuppliedGeneratorAccepted ==
    (pc = "done" /\ ~IsNone(args.rng) /\ ShapesMatch /\ ~IsNone(args.num_paths))
        => (outcome = "returned" /\ Get(rng).seed = Get(args.rng))

(* C5 ------------------------------------------------------------------- *)
\* C5: Shape errors. A call whose weights differ in length from the asset
\* columns of daily_returns raises and returns nothing.
C5_ShapeMismatchRaises ==
    (pc = "done" /\ ~ShapesMatch) => (outcome = "raised" /\ IsNone(result))

(* C6 ------------------------------------------------------------------- *)
CompleteResult(r, n) ==
    /\ Len(r.years) = n
    /\ \A k \in Keys : Len(r.percentiles[k]) = n
    /\ DOMAIN r.percentiles = Keys

\* C6: No partial results. A call is running with nothing returned, or has
\* returned a result holding all four statistics for all num_years years, or
\* has raised with nothing returned.
C6_NoPartialResults ==
    /\ outcome \in {"none", "returned", "raised"}
    /\ (outcome = "none") = (pc # "done")
    /\ outcome = "returned" =>
         (~IsNone(result) /\ error = "" /\ CompleteResult(Get(result), args.num_years))
    /\ outcome # "returned" => IsNone(result)
    /\ outcome = "raised" => error # ""

\* a failure in the day loop, after the collections were created
C6_Witness ==
    /\ outcome = "raised"
    /\ error = "ValueError"
    /\ day = 0 /\ Len(batches) = 1
    /\ DOMAIN yearly_values = 1..args.num_years
    /\ IsNone(result)

(* C7 ------------------------------------------------------------------- *)
\* the multi-asset case: more than one weight, one per asset column
MultiAsset == asset_count > 1 /\ Dim(cov_matrix) = asset_count

\* the covariance matrix with 1e-8 added to every diagonal entry
PlusDiagonalJitter(m) ==
    [i \in 1..Dim(m) |-> [j \in 1..Dim(m) |->
        IF IsNaN(m[i][j]) THEN NaN ELSE m[i][j] + (IF i = j THEN JITTER ELSE 0)]]

Last(s) == s[Len(s)]

\* C7: Numerical-instability recovery. In the multi-asset case the
\* decomposition is attempted on the covariance matrix and, only if that
\* fails, exactly once more on the covariance matrix plus 1e-8 on the diagonal;
\* the simulation runs with the factor of the last attempt, and a failure of
\* the second attempt ends the call with the decomposition error.
C7_JitterRetryOnce ==
    MultiAsset =>
        /\ Len(cholCalls) <= 2
        /\ Len(cholCalls) >= 1 => cholCalls[1] = cov_matrix
        /\ pc = "retry" => (Len(cholCalls) = 1 /\ IsNone(chol))
        /\ Len(cholCalls) = 2 =>
             /\ None \in Cholesky(cov_matrix)
             /\ cholCalls[2] = PlusDiagonalJitter(cov_matrix)
        /\ pc \in {"setup", "chunk", "day", "aggregate"} \/ outcome = "returned" =>
             /\ Len(cholCalls) >= 1
             /\ Some(chol) \in Cholesky(Last(cholCalls))
        /\ error = "LinAlgError" =>
             /\ Len(cholCalls) = 2
             /\ None \in Cholesky(cholCalls[2])
             /\ IsNone(chol)
             /\ outcome = "raised" /\ pc = "done" /\ batches = <<>>

\* the first attempt failed, the retry succeeded, the simulation ran to its end
C7_Witness ==
    /\ MultiAsset
    /\ Len(cholCalls) = 2
    /\ outcome = "returned"
    /\ ~MatHasNaN(chol)
    /\ Some(chol) \in Cholesky(PlusDiagonalJitter(cov_matrix))

\* both attempts failed and the error reached the caller
C7_WitnessPropagated == MultiAsset /\ error = "LinAlgError"

(* C8 ------------------------------------------------------------------- *)
\* the number of values collected for year y, over all chunks
CollectedCount(y) == SumSeq([c \in 1..Len(yearly_values[y]) |-> Len(yearly_values[y][c])])

\* C8: Complete aggregation. When the chunk loop has finished, the values
\* collected for every year are one snapshot per chunk, each with one value
\* per path of that chunk: num_paths values in total.
C8_CompleteAggregation ==
    (pc = "aggregate" \/ outcome = "returned") =>
        \A y \in 1..args.num_years :
            /\ y \in DOMAIN yearly_values
            /\ CollectedCount(y) = num_paths
            /\ Len(yearly_values[y]) = Len(batches)
            /\ \A c \in 1..Len(batches) : Len(yearly_values[y][c]) = batches[c]

C8_Witness ==
    /\ pc = "aggregate"
    /\ num_paths = MaxPaths
    /\ chunk_size = 2
    /\ args.num_years = MaxYears
    /\ CollectedCount(MaxYears) = MaxPaths

(* C9 ------------------------------------------------------------------- *)
\* C9: Chunking policy. Every batch started has between 1 and chunk_size
\* paths, every batch before the last one started has exactly chunk_size, the
\* batches never hold more than num_paths paths together, and when the loop
\* has finished they hold exactly num_paths, the last one the remainder; a
\* configured chunk size of at least num_paths gives one batch of num_paths.
C9_ChunkingPolicy ==
    /\ \A k \in 1..Len(batches) :
         /\ batches[k] >= 1 /\ batches[k] <= chunk_size
         /\ k < Len(batches) => batches[k] = chunk_size
    /\ SumSeq(batches) <= num_paths
    /\ (pc = "aggregate" \/ outcome = "returned") =>
         /\ SumSeq(batches) = num_paths
         /\ Last(batches) = num_paths - chunk_size * (Len(batches) - 1)
         /\ Len(batches) = (num_paths + chunk_size - 1) \div chunk_size
         /\ chunk_size = num_paths => batches = <<num_paths>>
         /\ Get(GetenvInt(env["MC_PATH_CHUNK_SIZE"], DEFAULT_MC_PATH_CHUNK_SIZE)) >= num_paths
                => batches = <<num_paths>>

\* a last batch shorter than the chunk size
C9_Witness ==
    /\ pc = "aggregate"
    /\ Len(batches) >= 2
    /\ Last(batches) < chunk_size
    /\ batches[1] = chunk_size

(* C10 ------------------------------------------------------------------ *)
\* C10: Shape of output. The returned years are 1, 2, ..., num_years in
\* ascending order, and each of p10, p50, p90 and mean has num_years entries,
\* the entry at position y being the statistic of the values collected for
\* year y.
C10_OutputShape ==
    outcome = "returned" =>
        /\ Get(result).years = [y \in 1..args.num_years |-> y]
        /\ \A k \in Keys : DOMAIN Get(result).percentiles[k] = 1..args.num_years
        /\ \A y \in 1..args.num_years :
             LET samples == Concatenate(yearly_values[y])
             IN  /\ Get(result).percentiles.p10[y] = Percentile(samples, 10)
                 /\ Get(result).percentiles.p50[y] = Percentile(samples, 50)
                 /\ Get(result).percentiles.p90[y] = Percentile(samples, 90)
                 /\ Get(result).percentiles.mean[y] = Mean(samples)

\* a result for several years whose years differ
C10_Witness ==
    /\ outcome = "returned"
    /\ args.num_years = MaxYears
    /\ Get(result).years[MaxYears] = MaxYears
    /\ Get(result).percentiles.p50[1] # Get(result).percentiles.p50[MaxYears]

(* C11 ------------------------------------------------------------------ *)
\* the historical returns have a finite variance
FiniteVariance == ~MatHasNaN(cov_matrix) /\ ~HasNaN(mean_returns)

\* C11: Positivity. For a positive initial_value and returns of finite
\* variance, every value collected at a year boundary and every reported p10,
\* p50, p90 and mean of every year is strictly positive.
C11_Positivity ==
    (outcome = "returned" /\ args.initial_value > 0 /\ FiniteVariance) =>
        /\ \A y \in DOMAIN yearly_values : \A c \in 1..Len(yearly_values[y]) :
             \A p \in 1..Len(yearly_values[y][c]) : yearly_values[y][c][p] > 0
        /\ \A k \in Keys : \A y \in 1..args.num_years :
             Get(result).percentiles[k][y] > 0

(* C12 ------------------------------------------------------------------ *)
\* a <= b on floats: false as soon as one side is NaN
Leq(a, b) == ~IsNaN(a) /\ ~IsNaN(b) /\ a <= b

Ordered(r) ==
    \A y \in 1..Len(r.years) :
        /\ Leq(r.percentiles.p10[y], r.percentiles.p50[y])
        /\ Leq(r.percentiles.p50[y], r.percentiles.p90[y])

WeightsFit(t, w) == Len(t) > 0 /\ Len(w) = Len(t[1]) /\ SumSeq(w) = WEIGHT_UNIT

\* the value is g ** 252 - 1: base ** (252 / days) = (g ** days) ** (252 / days),
\* and x ** (252 / days) is one-to-one on the positive floats
IsAnnualGrowth(value, g) ==
    /\ value.outcome = "returned"
    /\ \/ value.base = FInt(1) /\ g = FInt(1)
       \/ value.base = FPow(g, value.days)

\* C13: CAGR round-trip. For a price table of N >= 2 rows whose prices grow by
\* a constant factor g a day, calculate_historical_cagr returns g ** 252 - 1,
\* and so does calculate_portfolio_historical_cagr with weights summing to 1.
C13_CagrRoundTrip ==
    \A g \in GrowthFactors :
        (Len(price_data) >= 2 /\ HasGrowth(price_data, g)
            /\ \A j \in 1..Len(price_data[1]) : price_data[1][j] > 0) =>
            /\ cagr.outcome # "none" => IsAnnualGrowth(cagr, g)
            /\ (portfolio_cagr.outcome # "none" /\ WeightsFit(price_data, portfolio_weights))
                   => IsAnnualGrowth(portfolio_cagr, g)

(* C14 ------------------------------------------------------------------ *)
\* a > 0 on floats: false for NaN
FPositive(a) == a[1] > 0

IsExactlyZero(value) == value.outcome = "returned" /\ value.base = FInt(1)

\* a single row, or a first or last composite value (the mean of the row)
\* that is not positive
DegenerateComposite(t) ==
    /\ Len(t) >= 1
    /\ \/ Len(t) = 1
       \/ ~FPositive(RowMean(t[1]))
       \/ ~FPositive(RowMean(t[Len(t)]))

\* a single row, a first-row price of zero, or a first or last weighted value
\* that is not positive
DegenerateWeighted(t, w) ==
    /\ Len(t) >= 1
    /\ Len(w) = Len(t[1])
    /\ \/ Len(t) = 1
       \/ \E j \in 1..Len(t[1]) : t[1][j] = 0
       \/ ~FPositive(PortfolioValues(NormalizedPrices(t), w)[1])
       \/ ~FPositive(PortfolioValues(NormalizedPrices(t), w)[Len(t)])

\* C14: Degenerate CAGR inputs. Both CAGR functions give exactly 0.0 for a
\* single-row price table and for a table whose first or last composite or
\* weighted value is not positive, a first-row price of zero in the weighted
\* variant included.
C14_DegenerateCagrIsZero ==
    /\ (cagr.outcome # "none" /\ DegenerateComposite(price_data))
           => IsExactlyZero(cagr)
    /\ (portfolio_cagr.outcome # "none" /\ DegenerateWeighted(price_data, portfolio_weights))
           => IsExactlyZero(portfolio_cagr)

(* C15 ------------------------------------------------------------------ *)
\* C15: The CAGR functions never raise. For every price table, the empty one
\* included, and every weight vector, a call returns a float, and an empty
\* table gives 0.0.
C15_CagrNeverRaises ==
    /\ cagr.outcome # "raised"
    /\ portfolio_cagr.outcome # "raised"
    /\ (cagr.outcome # "none" /\ price_data = <<>>) => IsExactlyZero(cagr)
    /\ (portfolio_cagr.outcome # "none" /\ price_data = <<>>) => IsExactlyZero(portfolio_cagr)

(* C16 ------------------------------------------------------------------ *)
\* the position of ticker t in the request
IndexOf(t) == CHOOSE i \in 1..Len(portfolio.tickers) : portfolio.tickers[i] = t

\* the weight the request gives ticker t, as a share of the weights of the
\* tickers that have data
ShareOf(t) ==
    Frac(portfolio.weights[IndexOf(t)],
         SumSeq([i \in 1..Len(data) |-> portfolio.weights[IndexOf(data[i])]]))

\* C16: Positional weight alignment at the call site. The i-th weight handed
\* to calculate_portfolio_historical_cagr and run_monte_carlo_simulation
\* belongs to the ticker of the i-th column of the table handed with it,
\* whatever the cache held and the sources delivered.
C16_WeightsAlignedWithColumns ==
    response \in {"projections", "TypeError"} =>
        /\ Len(adjusted_weights) = Len(data)
        /\ \A i \in 1..Len(data) :
             /\ adjusted_tickers[i] = data[i]
             /\ adjusted_weights[i] = ShareOf(data[i])

(* C17 ------------------------------------------------------------------ *)
ArrivalOrders(n) == {f \in [1..n -> 1..n] : \A i, j \in 1..n : f[i] = f[j] => i = j}

\* the collected values with the snapshots of year y appended in the order f
Reordered(collected, y, f) ==
    [collected EXCEPT ![y] = [c \in 1..Len(collected[y]) |-> collected[y][f[c]]]]

\* C17: Order-independent aggregation. The p10, p50, p90 and mean of a year
\* depend only on the multiset of the values collected for it: with the
\* chunks' snapshots appended in any other order the four values are the same.
C17_OrderIndependentAggregation ==
    outcome = "returned" =>
        \A y \in 1..args.num_years :
            \A f \in ArrivalOrders(Len(yearly_values[y])) :
                Percentiles(years, Reordered(yearly_values, y, f), args.initial_value)
                    = Get(result).percentiles

\* as many chunks as paths, and snapshots that differ from one another
C17_Witness ==
    /\ outcome = "returned"
    /\ Len(batches) = MaxPaths
    /\ yearly_values[1][1] # yearly_values[1][2]
    /\ yearly_values[1][2] # yearly_values[1][MaxPaths]
    /\ Get(result).percentiles.p10[1] # Get(result).percentiles.p90[1]

(* C18 ------------------------------------------------------------------ *)
\* the path count asked for: the caller's, else MC_PATH_COUNT, else 5000
ConfiguredPaths ==
    IF ~IsNone(args.num_paths) THEN Get(args.num_paths)
    ELSE Get(GetenvInt(env["MC_PATH_COUNT"], DEFAULT_MC_PATH_COUNT))

\* the chunk size asked for: the caller's, else MC_PATH_CHUNK_SIZE, else 500
ConfiguredChunkSize ==
    IF ~IsNone(args.chunk_size) THEN Get(args.chunk_size)
    ELSE Get(GetenvInt(env["MC_PATH_CHUNK_SIZE"], DEFAULT_MC_PATH_CHUNK_SIZE))

\* C18: Configuration defaults. Without a num_paths from the caller the path
\* count comes from MC_PATH_COUNT (default 5000) and the chunk size from
\* MC_PATH_CHUNK_SIZE (default 500); the caller can override both per call,
\* and the per-call value takes precedence over the environment.
C18_ConfigurationDefaults ==
    /\ (pc = "done" /\ IsNone(args.rng) /\ ~IsNone(args.chunk_size))
           => error # "TypeError"
    /\ (pc \in {"chunk", "day", "aggregate"} \/ outcome = "returned") =>
           /\ num_paths = Max(1, ConfiguredPaths)
           /\ chunk_size = Max(1, Min(ConfiguredChunkSize, num_paths))
           /\ ~IsNone(args.num_paths) => "MC_PATH_COUNT" \notin DOMAIN env

(* C19 ------------------------------------------------------------------ *)
\* the integer MC_PATH_CHUNK_SIZE asks for
ConfiguredEnvChunkSize ==
    Get(GetenvInt(env["MC_PATH_CHUNK_SIZE"], DEFAULT_MC_PATH_CHUNK_SIZE))

\* C19: Clamping. Whatever chunk size is configured (zero, negative, larger
\* than num_paths) the effective chunk size lies in [1, num_paths], and
\* whatever path count is requested (zero and negative included) the effective
\* path count is at least 1; every step of the chunk loop is positive and the
\* loop simulates at least one path.
C19_Clamping ==
    /\ (pc \in {"decompose", "setup", "chunk", "day", "aggregate"}
            \/ outcome = "returned") =>
           /\ num_paths >= 1
           /\ num_paths >= ConfiguredPaths
    /\ (pc \in {"chunk", "day", "aggregate"} \/ outcome = "returned") =>
           /\ chunk_size >= 1
           /\ chunk_size <= num_paths
           /\ ConfiguredEnvChunkSize \in 1..num_paths
                  => chunk_size = ConfiguredEnvChunkSize
           /\ \A k \in 1..Len(batches) : batches[k] >= 1
    /\ (pc = "aggregate" \/ outcome = "returned") =>
           /\ Len(batches) >= 1
           /\ SumSeq(batches) >= 1

\* a negative path count and a negative chunk size were configured, and one
\* path was simulated in one batch
C19_Witness ==
    /\ pc = "aggregate"
    /\ args.num_paths = Some(0 - 3)
    /\ ConfiguredEnvChunkSize < 0
    /\ num_paths = 1
    /\ chunk_size = 1
    /\ batches = <<1>>

(* C20 ------------------------------------------------------------------ *)
\* every step of a call leaves the caller's table and weights as they were
CallerDataKept == args' = args

\* no step of a call changes state outside the call: the results held by other
\* parts of the process, and the environment variables it has read
ProcessStateKept ==
    /\ outsideVars' = outsideVars
    /\ callNo' = callNo =>
           /\ first' = first
           /\ \A k \in DOMAIN env : k \in DOMAIN env' /\ env'[k] = env[k]

\* the generator of a call is made by that call, at the start of its stream,
\* and only the draws of that call's day loop advance it
GeneratorOwned ==
    /\ (IsNone(rng) /\ ~IsNone(rng')) => (pc = "call" /\ Get(rng').pos = 0)
    /\ (~IsNone(rng) /\ ~IsNone(rng') /\ rng' # rng) =>
           /\ pc = "day"
           /\ Get(rng').seed = Get(rng).seed
           /\ Get(rng').pos = Get(rng).pos + DrawsPerDay

\* C20: No side effects. A call of run_monte_carlo_simulation leaves the
\* caller's daily_returns table and weights unchanged and changes no state of
\* the process outside the call; the only state it advances is the generator
\* that call made for itself, so the draws of one call never advance the
\* generator of another call.
C20_NoSideEffects ==
    [][CallerDataKept /\ ProcessStateKept /\ GeneratorOwned]_vars

\* a second call has taken all its draws after a first call took its own, and
\* the name daily_returns holds the sampled returns while the caller's table
\* is the one passed
C20_Witness ==
    /\ callNo = 2
    /\ pc = "aggregate"
    /\ ~IsNone(Get(first).seed)
    /\ Get(Get(first).seed).pos > 0
    /\ Get(rng).pos = Get(Get(first).seed).pos
    /\ daily_returns = NdArray(ValueOf(daily_returns))
    /\ args.daily_returns \in ReturnTables

(* C21 ------------------------------------------------------------------ *)
\* the draws one path takes on one day
DrawsPerPath == IF asset_count = 1 THEN 1 ELSE asset_count

\* the position in the generator's stream at which chunk k takes its first draw
FirstDrawOf(k) ==
    SumSeq([c \in 1..(k - 1) |-> batches[c]]) * total_days * DrawsPerPath

\* the sampled returns of day d (1, 2, ...) of chunk k, one per path, read off
\* the generator's stream
ReturnsOfDay(k, d) ==
    LET g == [seed |-> Get(rng).seed,
              pos  |-> FirstDrawOf(k) + (d - 1) * batches[k] * DrawsPerPath]
    IN  IF asset_count = 1
        THEN RngNormal(g, mean_return_single, std_return_single, batches[k])
        ELSE WeightedReturns(
                 Correlated(RngStandardNormal(g, batches[k], asset_count),
                            chol, mean_returns),
                 weights_array)

\* values times the product of (1 + return) over the days lo+1 .. hi of chunk k
\* (long spans of days are split in halves to keep the evaluation shallow)
RECURSIVE CompoundedOver(_, _, _, _)
CompoundedOver(values, k, lo, hi) ==
    IF lo >= hi THEN values
    ELSE IF hi <= lo + 12
         THEN LET returns == ReturnsOfDay(k, lo + 1)
              IN  CompoundedOver([p \in 1..Len(values) |->
                                     Compound(values[p], returns[p])],
                                 k, lo + 1, hi)
    ELSE CHOOSE w \in {CompoundedOver(half, k, (lo + hi) \div 2, hi) :
                          half \in {CompoundedOver(values, k, lo, (lo + hi) \div 2)}} : TRUE

\* every path of a chunk that starts holds initial_value
StartsAtInitialValue ==
    (pc = "day" /\ day = 0) =>
        /\ Len(current_values) = paths_in_chunk
        /\ \A p \in 1..paths_in_chunk : current_values[p] = args.initial_value

\* the values of chunk k at the end of year y, year 0 being the start
ValuesAtYear(k, y) ==
    IF y = 0 THEN [p \in 1..batches[k] |-> args.initial_value]
    ELSE yearly_values[y][k]

\* the value captured for year y is initial_value compounded over the path's
\* first 252 * y days: over the days of year y from the value of year y - 1
CapturedIsCompounded ==
    pc = "aggregate" =>
        \A y \in DOMAIN yearly_values : \A k \in 1..Len(yearly_values[y]) :
            yearly_values[y][k] =
                CompoundedOver(ValuesAtYear(k, y - 1), k,
                               DAYS_IN_YEAR * (y - 1), DAYS_IN_YEAR * y)

\* a day multiplies every path's value by 1 + that day's return for that path
DayCompounds ==
    (pc = "day" /\ pc' # "done") =>
        /\ daily_returns' = NdArray(ReturnsOfDay(Len(batches), day'))
        /\ Len(current_values') = Len(current_values)
        /\ \A p \in 1..Len(current_values) :
             current_values'[p] = Compound(current_values[p], ValueOf(daily_returns')[p])

\* C21: Compounding. Every path of every chunk starts at initial_value (no
\* value carries over from the chunk before), after each simulated day its
\* value is its previous value times (1 + that day's sampled return for that
\* path), and the value captured for year y is initial_value times the product
\* of (1 + return) over that path's first 252 * y days.
C21_Compounding ==
    /\ [](StartsAtInitialValue /\ CapturedIsCompounded)
    /\ [][DayCompounds]_vars

\* a second chunk has been simulated to its end over sampled returns that
\* differ from day to day, and its paths ended away from initial_value
C21_Witness ==
    /\ pc = "aggregate"
    /\ Len(batches) >= 2
    /\ args.num_years = MaxYears
    /\ std_return_single > 0
    /\ yearly_values[MaxYears][2][1] # args.initial_value
    /\ yearly_values[MaxYears][2][1] # yearly_values[1][2][1]
    /\ yearly_values[1][2][1] # yearly_values[1][1][1]

(* C22 ------------------------------------------------------------------ *)
\* the call is in its chunk loop or past it
InLoops == pc \in {"chunk", "day", "aggregate"} \/ outcome = "returned"

\* the statistics and the decomposition are those computed before the loops
ComputedBeforeTheLoops ==
    /\ pc \in {"decompose", "retry"} => batches = <<>>
    /\ pc = "setup" => batches = <<>>
    /\ InLoops =>
         /\ mean_returns = MeanReturns(args.daily_returns)
         /\ cov_matrix = CovMatrix(args.daily_returns)
         /\ IF asset_count > 1
            THEN /\ Len(cholCalls) \in {1, 2}
                 /\ ~IsNone(chol)
            ELSE /\ cholCalls = <<>>
                 /\ IsNone(chol)
                 /\ mean_return_single = mean_returns[1]

\* no step of the chunk loop or of the day loop decomposes again or changes
\* the statistics
SamplerKept ==
    pc \in {"chunk", "day", "aggregate"} =>
        /\ mean_returns' = mean_returns
        /\ cov_matrix' = cov_matrix
        /\ chol' = chol
        /\ cholCalls' = cholCalls
        /\ mean_return_single' = mean_return_single
        /\ std_return_single' = std_return_single

\* C22: The covariance decomposition is computed once per call, before the
\* first chunk starts, and the mean vector, the covariance matrix and the
\* decomposition (or the single-asset mean and standard deviation) are
\* unchanged by every day step and every chunk.
C22_DecompositionOncePerCall ==
    /\ []ComputedBeforeTheLoops
    /\ [][SamplerKept]_vars

\* two assets, one decomposition, and a second chunk in its day loop
C22_Witness ==
    /\ pc = "day"
    /\ day >= 1
    /\ Len(batches) >= 2
    /\ asset_count = 2
    /\ Len(cholCalls) = 1
    /\ ~IsNone(chol)
    /\ ~MatHasNaN(chol)

(* C23 ------------------------------------------------------------------ *)
\* the start index of chunk k of range(0, num_paths, chunk_size)
StartIndexOf(k) == SumSeq([c \in 1..(k - 1) |-> batches[c]])

\* C23: Sequential chunks on one generator. Chunks are processed one after
\* another in ascending start index, all days of a chunk are simulated before
\* the first day of the next chunk, and all chunks draw from the same advancing
\* generator: chunk k takes its draws from the stream right after those of the
\* chunks before it, and the draws of a call total num_paths times the days
\* times the draws per path, whatever the chunk size.
C23_SequentialChunks ==
    /\ pc = "chunk" =>
         /\ chunk_start = chunk_size * Len(batches)
         /\ chunk_start < num_paths => chunk_start = StartIndexOf(Len(batches) + 1)
         /\ batches # <<>> => day = total_days
         /\ Get(rng).pos = FirstDrawOf(Len(batches) + 1)
    /\ pc = "day" =>
         /\ batches # <<>>
         /\ chunk_start = StartIndexOf(Len(batches))
         /\ day < total_days
         /\ Get(rng).pos = FirstDrawOf(Len(batches)) + day * paths_in_chunk * DrawsPerPath
         /\ Get(rng).pos + (total_days - day) * paths_in_chunk * DrawsPerPath
                = FirstDrawOf(Len(batches) + 1)
    /\ (pc = "aggregate" \/ outcome = "returned") =>
         Get(rng).pos = num_paths * total_days * DrawsPerPath

\* three paths in chunks of two: the second chunk has drawn up to the end of
\* the stream's first 3 * 252 * years * 2 numbers
C23_Witness ==
    /\ pc = "aggregate"
    /\ asset_count = 2
    /\ batches = <<2, 1>>
    /\ Get(rng).pos = 3 * total_days * 2
    /\ FirstDrawOf(2) = 2 * total_days * 2

(* C24 ------------------------------------------------------------------ *)
\* the snapshots year y holds once day d of chunk k has been simulated
SnapshotsBy(k, d, y) == (k - 1) + (IF d >= y * DAYS_IN_YEAR THEN 1 ELSE 0)

\* every year holds one snapshot for each chunk that has passed its boundary
OnePerChunkAndYear ==
    /\ pc = "day" =>
         \A y \in 1..args.num_years :
             Len(yearly_values[y]) = SnapshotsBy(Len(batches), day, y)
    /\ (pc \in {"chunk", "aggregate"} \/ outcome = "returned") =>
         /\ DOMAIN yearly_values = 1..args.num_years
         /\ \A y \in 1..args.num_years : Len(yearly_values[y]) = Len(batches)

\* a day step records something only on day y * 252, then for year y alone,
\* and what it records are the values after that day's update
CapturedAtBoundaryOnly ==
    (pc = "day" /\ pc' # "done") =>
        IF \E y \in 1..args.num_years : day' = y * DAYS_IN_YEAR
        THEN LET y == day' \div DAYS_IN_YEAR
             IN  /\ yearly_values'[y] = Append(yearly_values[y], current_values')
                 /\ \A z \in (DOMAIN yearly_values) \ {y} :
                        yearly_values'[z] = yearly_values[z]
                 /\ \A z \in 1..args.num_years :
                        z < y => Len(yearly_values'[z]) = Len(yearly_values'[y])
                 /\ \A z \in 1..args.num_years :
                        z > y => Len(yearly_values'[z]) = Len(yearly_values'[y]) - 1
        ELSE yearly_values' = yearly_values

\* C24: Year-boundary capture. Within each chunk a snapshot is handed to the
\* aggregator for year y exactly once, at day y * 252 and after that day's
\* update has been applied, for every y in 1..num_years, in ascending year
\* order; no value of any other day is recorded.
C24_YearBoundaryCapture ==
    /\ []OnePerChunkAndYear
    /\ [][CapturedAtBoundaryOnly]_vars

\* the second chunk is between its first and its second year boundary
C24_Witness ==
    /\ pc = "day"
    /\ Len(batches) = 2
    /\ day > DAYS_IN_YEAR
    /\ args.num_years = MaxYears
    /\ Len(yearly_values[1]) = 2
    /\ Len(yearly_values[MaxYears]) = 1
    /\ yearly_values[1][2] # current_values

(* C25 ------------------------------------------------------------------ *)
\* the decomposition (or the single-asset statistics) and the setup are done,
\* and the chunk loop is about to start
DecompositionSucceeded == pc = "chunk" /\ batches = <<>>

\* the call has returned after ceil(num_paths / chunk_size) chunks of
\* 252 * num_years day steps each
ReturnedAfterAllChunks ==
    /\ outcome = "returned"
    /\ ~IsNone(result)
    /\ Len(batches) = (num_paths + chunk_size - 1) \div chunk_size
    /\ day = DAYS_IN_YEAR * args.num_years
    /\ Get(rng).pos = num_paths * DAYS_IN_YEAR * args.num_years * DrawsPerPath

\* C25: Termination. A call whose decomposition succeeds terminates after
\* exactly ceil(num_paths / effective chunk size) chunks of exactly
\* num_years * 252 day steps each, and then returns its result.
C25_Termination == DecompositionSucceeded ~> ReturnedAfterAllChunks

(* C26 ------------------------------------------------------------------ *)
\* the request is valid and price data was fetched for tickers whose weights
\* do not sum to zero
ValidAndFetched ==
    /\ site_pc = "done"
    /\ prices_data # <<>>
    /\ OriginalWeightsSum(portfolio, prices_data) > 0

\* C26: analyze_portfolio, given a valid portfolio whose price data was
\* fetched, calls run_monte_carlo_simulation only with arguments that function
\* accepts, so the call returns and the response holds the projections together
\* with the historical CAGR.
C26_SimulationCallAccepted ==
    ValidAndFetched => response = "projections"

(* C27 ------------------------------------------------------------------ *)
\* fetch_prices_with_cache_and_hybrid has returned
FetchReturned == site_pc \in {"analyze", "done"}

GetStep == cache_calls' = cache_calls + 1 /\ cache_op'.name = "get"

\* an entry for key k was set and its age is at most the TTL
SetAndFresh(k) ==
    /\ set_log[k] # None
    /\ clock - set_log[k][1].time <= ttl_seconds

\* a get returns the (data, source) of the last set of its own key exactly
\* when that set is at most the TTL old, and (None, None) otherwise; an
\* entry older than the TTL is gone after the get
GetReturnsFreshEntry ==
    GetStep =>
        LET k == cache_op'.key IN
        /\ SetAndFresh(k) =>
               cache_op'.result = << Some(set_log[k][1].payload.data),
                                     Some(set_log[k][1].payload.source) >>
        /\ ~SetAndFresh(k) =>
               /\ cache_op'.result = <<None, None>>
               /\ CachePath(k) \notin DOMAIN cache_files'

\* a key without a file keeps missing until it is set again
MissesUntilNextSet ==
    \A k \in CacheKeys :
        (CachePath(k) \notin DOMAIN cache_files /\ set_log'[k] = set_log[k])
            => CachePath(k) \notin DOMAIN cache_files'

\* the files are those of the keys, one file per key
OneFilePerKey ==
    /\ DOMAIN cache_files \subseteq { CachePath(k) : k \in CacheKeys }
    /\ \A j, k \in CacheKeys : CachePath(j) = CachePath(k) => j = k

PartlyFetched ==
    /\ site_pc = "done"
    /\ prices_data # <<>>
    /\ Len(prices_data) # Len(portfolio.tickers)

\* the requested tickers that have data
Available == Elements(portfolio.tickers) \cap Elements(prices_data)

\* the original weights of the available tickers, summed (in percent)
AvailableWeight ==
    SumSeq([i \in 1..Len(portfolio.tickers) |->
               IF portfolio.tickers[i] \in Available THEN portfolio.weights[i] ELSE 0])

\* s lists tickers of the request in the order of the request
InRequestOrder(s) ==
    /\ Elements(s) \subseteq Elements(portfolio.tickers)
    /\ \A i, j \in 1..Len(s) : i < j => IndexOf(s[i]) < IndexOf(s[j])

\* C29: Partial-failure adjustment. When data is fetched for only some of the
\* requested tickers and their original weights sum to more than zero,
\* analyze_portfolio continues with exactly the available tickers in request
\* order and one weight per available ticker, each its original weight divided
\* by the sum of the available weights, so the adjusted weights sum to 1; when
\* the available weights sum to zero it returns an error and runs no simulation.
C29_PartialFailureAdjustment ==
    PartlyFetched =>
        IF AvailableWeight > 0
        THEN /\ response # "error"
             /\ Elements(adjusted_tickers) = Available
             /\ InRequestOrder(adjusted_tickers)
             /\ Len(adjusted_weights) = Len(adjusted_tickers)
             /\ \A i \in 1..Len(adjusted_tickers) :
                    adjusted_weights[i] =
                        Frac(portfolio.weights[IndexOf(adjusted_tickers[i])], AvailableWeight)
             /\ FSum(adjusted_weights) = FInt(1)
        ELSE /\ response = "error"
             /\ data = <<>>

\* of six requested tickers the second and the fifth have no data, and the
\* weights of the other four were raised
C29_Witness ==
    /\ PartlyFetched
    /\ Len(portfolio.tickers) = 6
    /\ Available = {"A", "C", "D", "F"}
    /\ adjusted_tickers = <<"A", "C", "D", "F">>
    /\ adjusted_weights[1] = Frac(30, 69)
    /\ response # "error"

\* the only ticker with data has weight zero: an error, no simulation
C29_WitnessZeroSum ==
    /\ PartlyFetched
    /\ AvailableWeight = 0
    /\ response = "error"

(* --------------------------------- C30 -------------------------------- *)
\* the call is in its loops or past them
Collecting == pc \in {"chunk", "day", "aggregate"} \/ outcome = "returned"

\* what is collected for every year are the values of the year's last day
CollectedAsAtBoundary == Collecting => yearly_values = at_boundary

\* no step changes a snapshot that is collected
SnapshotsKept ==
    (Collecting /\ pc' # "call") =>
        \A y \in DOMAIN yearly_values :
            \A c \in 1..Len(yearly_values[y]) :
                /\ c <= Len(yearly_values'[y])
                /\ yearly_values'[y][c] = yearly_values[y][c]

\* the percentiles returned are those of the values of the year's last day
PercentilesOfBoundaryValues ==
    outcome = "returned" =>
        Get(result).percentiles = Percentiles(years, at_boundary, args.initial_value)

\* C30: Snapshot isolation. A year-boundary snapshot, once collected, is never
\* changed by the later in-place day updates of the same chunk or by any later
\* chunk; the values used for year y's percentiles are exactly the path values
\* as they were at day y * 252.
C30_SnapshotIsolation ==
    /\ [](CollectedAsAtBoundary /\ PercentilesOfBoundaryValues)
    /\ [][SnapshotsKept]_vars

\* two years and two chunks have been returned; the values of the first
\* chunk went on changing after the first year's snapshot, which differs
\* from the second year's and from the second chunk's
C30_Witness ==
    /\ outcome = "returned"
    /\ args.num_years = MaxYears
    /\ Len(batches) >= 2
    /\ yearly_values[1][1] # yearly_values[MaxYears][1]
    /\ yearly_values[1][1] # yearly_values[1][2]
    /\ yearly_values[1] = at_boundary[1]

====
